---- MODULE Spec2Model ----
(***************************************************************************)
(* RWSync::Manager (src/RWSyncManager.cpp): the index arbitration between  *)
(* one writer and up to maxReaders readers over maxReaders + 2 cells.      *)
(*                                                                         *)
(* Every atomic operation of the source (load, store, exchange, fetch_sub, *)
(* one compare_exchange attempt) and every mutex lock/unlock is one step;  *)
(* threads interleave freely between steps.  A spurious failure of         *)
(* compare_exchange_weak re-loads the value it expected and is therefore a *)
(* stuttering step.  The reads of readersOf.size() that race with          *)
(* emplace_back return either the old or the new length, which is what     *)
(* reading the length before or after the append step gives.               *)
(* Cells are numbered from 0 as in the source.                             *)
(***************************************************************************)
EXTENDS Integers, FiniteSets, Sequences, TLC

\* ---- bounds ----
MaxPub == 3
MaxPubAdmin == 2
MaxReadersCap == 2

\* ---- program constants ----
MinMaxReaders == 1

\* the threads of the model
Readers == {1, 2}
Writers == {1, 2}
Admins == {1, 2}
\* the threads that can grow the table: 0 calls increaseMaxReadersTo itself,
\* r in Readers constructs a GuaranteedReadPtr
Growers == {0} \cup Readers

VARIABLES
    \* Manager
    readersOf, latest, writerIndex, nWriters, nReaders, sizeMutex,
    \* user data: data[i] is the number of the writer's value stored in cell i
    data, pubCount, lastReset,
    \* WriteIndex handles and the position inside pushWrite
    wh, wpc, wi, wsize,
    \* ReadIndex handles
    rh, rpc, rindex, rcurr, rlr,
    \* per-handle history of the reader
    prevSeen, startPub, rcall, sawUpdate,
    \* admin threads: reset() and Lockout
    apc, akind, hasReadLock, hasWriteLock, ai, aret,
    aobs, aLive, achg, apre, aquiet,
    \* increaseMaxReadersTo and ensureSpaceForReaders, per growing thread
    gpc, gnew, dataSizeMutex

mgrVars == <<readersOf, latest, writerIndex, nWriters, nReaders, sizeMutex>>
dataVars == <<data, pubCount, lastReset>>
wVars == <<wh, wpc, wi, wsize>>
rVars == <<rh, rpc, rindex, rcurr, rlr>>
rHist == <<prevSeen, startPub, rcall, sawUpdate>>
aVars == <<apc, akind, hasReadLock, hasWriteLock, ai, aret>>
aHist == <<aobs, aLive, achg, apre, aquiet>>
gVars == <<gpc, gnew, dataSizeMutex>>
vars == <<mgrVars, dataVars, wVars, rVars, rHist, aVars, aHist, gVars>>

\* Manager::size
size == Cardinality(DOMAIN readersOf)

\* Manager::getMaxReaders
getMaxReaders == size - 2

FreeMutex == <<"free", 0>>

\* ---- history bookkeeping for the admin calls ----
CtorPcs == {"lk_readers", "lk_writer"}

\* the interval over which an admin call is observed: the whole call of a
\* reset(), the construction of a Lockout
InCall(a) == IF akind[a] = "reset" THEN apc[a] # "idle" ELSE apc[a] \in CtorPcs

AnyLiveHandle == (\E r \in Readers : rh[r] = "valid") \/ (\E w \in Writers : wh[w] = "valid")

\* a handle became Valid or stopped being Valid
NoteHandles == achg' = [a \in Admins |-> achg[a] \/ (aobs[a] /\ InCall(a))]

\* nReaders or nWriters was changed, by admin thread `self` or (self = 0) by a handle
NoteCounters(self) == aquiet' = [a \in Admins |-> IF a # self /\ aobs[a] /\ InCall(a) /\ akind[a] = "reset" THEN FALSE ELSE aquiet[a]]

\* ---- Manager::Manager(maxReaders): readersOf.resize(maxReaders + 2); reset() ----
Init ==
    /\ \E maxReaders \in MinMaxReaders..MaxReadersCap :
          readersOf = [i \in 0..(maxReaders + 1) |-> IF i = 0 THEN -1 ELSE 0]
    /\ latest = -1
    /\ writerIndex = 0
    /\ nWriters = 0
    /\ nReaders = 0
    /\ sizeMutex = FreeMutex
    /\ data = [i \in DOMAIN readersOf |-> 0]
    /\ pubCount = 0
    /\ lastReset = 0
    /\ wh = [w \in Writers |-> "none"]
    /\ wpc = "idle"
    /\ wi = 0
    /\ wsize = 0
    /\ rh = [r \in Readers |-> "none"]
    /\ rpc = [r \in Readers |-> "idle"]
    /\ rindex = [r \in Readers |-> -1]
    /\ rcurr = [r \in Readers |-> 0]
    /\ rlr = [r \in Readers |-> 0]
    /\ prevSeen = [r \in Readers |-> 0]
    /\ startPub = [r \in Readers |-> 0]
    /\ rcall = [r \in Readers |-> "none"]
    /\ sawUpdate = [r \in Readers |-> FALSE]
    /\ apc = [a \in Admins |-> "idle"]
    /\ akind = [a \in Admins |-> "reset"]
    /\ hasReadLock = [a \in Admins |-> FALSE]
    /\ hasWriteLock = [a \in Admins |-> FALSE]
    /\ ai = [a \in Admins |-> 0]
    /\ aret = [a \in Admins |-> "none"]
    /\ aobs = [a \in Admins |-> FALSE]
    /\ aLive = [a \in Admins |-> FALSE]
    /\ achg = [a \in Admins |-> FALSE]
    /\ apre = [a \in Admins |-> <<0, 0>>]
    /\ aquiet = [a \in Admins |-> TRUE]
    /\ gpc = [t \in Growers |-> "idle"]
    /\ gnew = [t \in Growers |-> 0]
    /\ dataSizeMutex = FreeMutex

\* ================= WriteIndex =================

\* Manager::checkoutWriter: the value of nWriters after the CAS, and its result
checkoutWriterOk == nWriters = 0

\* WriteIndex::WriteIndex
WriteIndexCtor(w) ==
    /\ wh[w] = "none"
    /\ IF checkoutWriterOk
         THEN /\ nWriters' = 1
              /\ wh' = [wh EXCEPT ![w] = "valid"]
              /\ NoteHandles
              /\ NoteCounters(0)
         ELSE /\ wh' = [wh EXCEPT ![w] = "invalid"]
              /\ UNCHANGED <<nWriters, achg, aquiet>>
    /\ UNCHANGED <<readersOf, latest, writerIndex, nReaders, sizeMutex, dataVars,
                   wpc, wi, wsize, rVars, rHist, aVars, aobs, aLive, apre, gVars>>

\* WriteIndexDtor with a destructor that calls returnWriter() whether or not
\* the handle is valid
WriteIndexDtorAlways(w) ==
    /\ wh[w] # "none"
    /\ wpc = "idle" \/ wh[w] = "invalid"
    /\ nWriters' = 0
    /\ NoteHandles
    /\ NoteCounters(0)
    /\ wh' = [wh EXCEPT ![w] = "none"]
    /\ UNCHANGED <<readersOf, latest, writerIndex, nReaders, sizeMutex, dataVars,
                   wpc, wi, wsize, rVars, rHist, aVars, aobs, aLive, apre, gVars>>

\* WriteIndex::~WriteIndex (Manager::returnWriter when valid)
WriteIndexDtor(w) ==
    /\ wh[w] # "none"
    /\ wpc = "idle" \/ wh[w] = "invalid"
    /\ IF wh[w] = "valid"
         THEN /\ nWriters' = 0
              /\ NoteHandles
              /\ NoteCounters(0)
         ELSE UNCHANGED <<nWriters, achg, aquiet>>
    /\ wh' = [wh EXCEPT ![w] = "none"]
    /\ UNCHANGED <<readersOf, latest, writerIndex, nReaders, sizeMutex, dataVars,
                   wpc, wi, wsize, rVars, rHist, aVars, aobs, aLive, apre, gVars>>

\* the writer stores its next value into the cell named by WriteIndex::operator int
WriteDraft(w, cap) ==
    /\ wh[w] = "valid"
    /\ wpc = "idle"
    /\ pubCount < cap
    /\ data[writerIndex] # pubCount + 1
    /\ data' = [data EXCEPT ![writerIndex] = pubCount + 1]
    /\ UNCHANGED <<mgrVars, pubCount, lastReset, wVars, rVars, rHist, aVars, aHist, gVars>>

\* PushWriteRelease with a pushWrite that leaves the draft mark on the cell
\* it publishes
PushWriteReleaseKeepsMark(w) ==
    /\ wh[w] = "valid"
    /\ wpc = "idle"
    /\ data[writerIndex] = pubCount + 1
    /\ wpc' = "pw_latest"
    /\ UNCHANGED <<readersOf, latest, writerIndex, nWriters, nReaders, sizeMutex, dataVars,
                   wh, wi, wsize, rVars, rHist, aVars, aHist, gVars>>

\* Manager::pushWrite, readersOf[writerIndex].store(0)
PushWriteRelease(w) ==
    /\ wh[w] = "valid"
    /\ wpc = "idle"
    /\ data[writerIndex] = pubCount + 1
    /\ readersOf' = [readersOf EXCEPT ![writerIndex] = 0]
    /\ wpc' = "pw_latest"
    /\ UNCHANGED <<latest, writerIndex, nWriters, nReaders, sizeMutex, dataVars,
                   wh, wi, wsize, rVars, rHist, aVars, aHist, gVars>>

\* PushWriteLatest with a pushWrite that does not store latest
PushWriteLatestSkipped(w) ==
    /\ wh[w] = "valid"
    /\ wpc = "pw_latest"
    /\ pubCount' = pubCount + 1
    /\ wpc' = "pw_size"
    /\ UNCHANGED <<readersOf, latest, writerIndex, nWriters, nReaders, sizeMutex, data, lastReset,
                   wh, wi, wsize, rVars, rHist, aVars, aHist, gVars>>

\* Manager::pushWrite, latest.store(writerIndex)
PushWriteLatest(w) ==
    /\ wh[w] = "valid"
    /\ wpc = "pw_latest"
    /\ latest' = writerIndex
    /\ pubCount' = pubCount + 1
    /\ wpc' = "pw_size"
    /\ UNCHANGED <<readersOf, writerIndex, nWriters, nReaders, sizeMutex, data, lastReset,
                   wh, wi, wsize, rVars, rHist, aVars, aHist, gVars>>

\* Manager::pushWrite, int currSize = size()
PushWriteSize(w) ==
    /\ wh[w] = "valid"
    /\ wpc = "pw_size"
    /\ wsize' = size
    /\ wi' = 0
    /\ wpc' = "pw_scan"
    /\ UNCHANGED <<mgrVars, dataVars, wh, rVars, rHist, aVars, aHist, gVars>>

\* PushWriteScan with a scan that does not skip the cell it has just published
PushWriteScanNoSkip(w) ==
    /\ wh[w] = "valid"
    /\ wpc = "pw_scan"
    /\ IF wi >= wsize
         THEN /\ writerIndex' = -1
              /\ wpc' = "pw_failed"
              /\ UNCHANGED <<readersOf, wi, wsize>>
         ELSE IF readersOf[wi] = 0
                THEN /\ readersOf' = [readersOf EXCEPT ![wi] = -1]
                     /\ writerIndex' = wi
                     /\ wpc' = "idle"
                     /\ wi' = 0
                     /\ wsize' = 0
                ELSE /\ wi' = wi + 1
                     /\ UNCHANGED <<readersOf, writerIndex, wpc, wsize>>
    /\ UNCHANGED <<latest, nWriters, nReaders, sizeMutex, dataVars,
                   wh, rVars, rHist, aVars, aHist, gVars>>

\* PushWriteScan with a scan that takes any cell that is not a draft, read or not
PushWriteScanAnyCell(w) ==
    /\ wh[w] = "valid"
    /\ wpc = "pw_scan"
    /\ IF wi >= wsize
         THEN /\ writerIndex' = -1
              /\ wpc' = "pw_failed"
              /\ UNCHANGED <<readersOf, wi, wsize>>
         ELSE IF wi # writerIndex /\ readersOf[wi] >= 0
                THEN /\ readersOf' = [readersOf EXCEPT ![wi] = -1]
                     /\ writerIndex' = wi
                     /\ wpc' = "idle"
                     /\ wi' = 0
                     /\ wsize' = 0
                ELSE /\ wi' = wi + 1
                     /\ UNCHANGED <<readersOf, writerIndex, wpc, wsize>>
    /\ UNCHANGED <<latest, nWriters, nReaders, sizeMutex, dataVars,
                   wh, rVars, rHist, aVars, aHist, gVars>>

\* PushWriteScan with a scan that tries the same cell again when its
\* compare_exchange fails, instead of going on to the next cell
PushWriteScanRetry(w) ==
    /\ wh[w] = "valid"
    /\ wpc = "pw_scan"
    /\ IF wi >= wsize
         THEN /\ writerIndex' = -1
              /\ wpc' = "pw_failed"
              /\ UNCHANGED <<readersOf, wi, wsize>>
         ELSE IF wi # writerIndex /\ readersOf[wi] = 0
                THEN /\ readersOf' = [readersOf EXCEPT ![wi] = -1]
                     /\ writerIndex' = wi
                     /\ wpc' = "idle"
                     /\ wi' = 0
                     /\ wsize' = 0
                ELSE /\ wi' = IF wi = writerIndex THEN wi + 1 ELSE wi
                     /\ UNCHANGED <<readersOf, writerIndex, wpc, wsize>>
    /\ UNCHANGED <<latest, nWriters, nReaders, sizeMutex, dataVars,
                   wh, rVars, rHist, aVars, aHist, gVars>>

\* Manager::pushWrite, one iteration of the scan for the next draft cell
PushWriteScan(w) ==
    /\ wh[w] = "valid"
    /\ wpc = "pw_scan"
    /\ IF wi >= wsize
         THEN \* assert(newWriterIndex != -1) fails; writerIndex = newWriterIndex
              /\ writerIndex' = -1
              /\ wpc' = "pw_failed"
              /\ UNCHANGED <<readersOf, wi, wsize>>
         ELSE IF wi # writerIndex /\ readersOf[wi] = 0
                THEN /\ readersOf' = [readersOf EXCEPT ![wi] = -1]
                     /\ writerIndex' = wi
                     /\ wpc' = "idle"
                     /\ wi' = 0
                     /\ wsize' = 0
                ELSE /\ wi' = wi + 1
                     /\ UNCHANGED <<readersOf, writerIndex, wpc, wsize>>
    /\ UNCHANGED <<latest, nWriters, nReaders, sizeMutex, dataVars,
                   wh, rVars, rHist, aVars, aHist, gVars>>

\* WriteIndex::pushUpdate on a handle with valid == false: if (valid) is not taken
PushUpdateInvalid(w) ==
    /\ wh[w] = "invalid"
    /\ UNCHANGED vars

\* ================= ReadIndex =================

\* hasUpdate that reports an update only to a handle that already holds a latch
hasUpdateNeedsLatch(r) == rh[r] = "valid" /\ rindex[r] # -1 /\ latest # -1 /\ latest # rindex[r]

\* hasUpdate with the comparison of latest and index inverted
hasUpdateInverted(r) == rh[r] = "valid" /\ latest # -1 /\ latest = rindex[r]

\* ReadIndex::hasUpdate, as a function of the state it loads
hasUpdate(r) == rh[r] = "valid" /\ latest # -1 /\ latest # rindex[r]

\* the reader holds a latch: its increment of readersOf[index] has happened
Latched(r) == rh[r] = "valid" /\ rindex[r] # -1 /\ rpc[r] \notin {"gl_cas", "gl_reload"}

\* ReadIndexCtor with a constructor that does not call getLatest()
ReadIndexCtorNoLatch(r, hist) ==
    /\ rh[r] = "none"
    /\ IF nReaders = 0
         THEN /\ nReaders' = 1
              /\ rh' = [rh EXCEPT ![r] = "valid"]
              /\ rpc' = rpc
              /\ rcurr' = rcurr
              /\ NoteHandles
              /\ NoteCounters(0)
         ELSE /\ rh' = [rh EXCEPT ![r] = "ctor"]
              /\ rpc' = [rpc EXCEPT ![r] = "co_chk"]
              /\ rcurr' = [rcurr EXCEPT ![r] = nReaders]
              /\ UNCHANGED <<nReaders, achg, aquiet>>
    /\ startPub' = [startPub EXCEPT ![r] = IF hist THEN pubCount ELSE 0]
    /\ rcall' = [rcall EXCEPT ![r] = IF hist THEN "ctor" ELSE "none"]
    /\ UNCHANGED <<readersOf, latest, writerIndex, nWriters, sizeMutex, dataVars, wVars,
                   rindex, rlr, prevSeen, sawUpdate, aVars, aobs, aLive, apre, gVars>>

\* ReadIndex::ReadIndex, first compare_exchange of Manager::checkoutReader
\* (currReaders = 0)
ReadIndexCtor(r, hist) ==
    /\ rh[r] = "none"
    /\ IF nReaders = 0
         THEN /\ nReaders' = 1
              /\ rh' = [rh EXCEPT ![r] = "valid"]
              /\ rpc' = [rpc EXCEPT ![r] = "gl_load"]
              /\ rcurr' = rcurr
              /\ NoteHandles
              /\ NoteCounters(0)
         ELSE /\ rh' = [rh EXCEPT ![r] = "ctor"]
              /\ rpc' = [rpc EXCEPT ![r] = "co_chk"]
              /\ rcurr' = [rcurr EXCEPT ![r] = nReaders]
              /\ UNCHANGED <<nReaders, achg, aquiet>>
    /\ startPub' = [startPub EXCEPT ![r] = IF hist THEN pubCount ELSE 0]
    /\ rcall' = [rcall EXCEPT ![r] = IF hist THEN "ctor" ELSE "none"]
    /\ UNCHANGED <<readersOf, latest, writerIndex, nWriters, sizeMutex, dataVars, wVars,
                   rindex, rlr, prevSeen, sawUpdate, aVars, aobs, aLive, apre, gVars>>

\* CheckoutReaderTest with the bound tested as currReaders > getMaxReaders()
CheckoutReaderTestOffByOne(r) ==
    /\ rh[r] = "ctor"
    /\ rpc[r] = "co_chk"
    /\ IF rcurr[r] > getMaxReaders
         THEN /\ rh' = [rh EXCEPT ![r] = "invalid"]
              /\ rpc' = [rpc EXCEPT ![r] = "idle"]
              /\ rcurr' = [rcurr EXCEPT ![r] = 0]
         ELSE /\ rpc' = [rpc EXCEPT ![r] = "co_cas"]
              /\ UNCHANGED <<rh, rcurr>>
    /\ UNCHANGED <<mgrVars, dataVars, wVars, rindex, rlr, rHist, aVars, aHist, gVars>>

\* CheckoutReaderTest with getMaxReaders() read under sizeMutex
CheckoutReaderTestLocked(r) ==
    /\ rh[r] = "ctor"
    /\ rpc[r] = "co_chk"
    /\ sizeMutex = FreeMutex
    /\ IF rcurr[r] >= getMaxReaders
         THEN /\ rh' = [rh EXCEPT ![r] = "invalid"]
              /\ rpc' = [rpc EXCEPT ![r] = "idle"]
              /\ rcurr' = [rcurr EXCEPT ![r] = 0]
         ELSE /\ rpc' = [rpc EXCEPT ![r] = "co_cas"]
              /\ UNCHANGED <<rh, rcurr>>
    /\ UNCHANGED <<mgrVars, dataVars, wVars, rindex, rlr, rHist, aVars, aHist, gVars>>

\* Manager::checkoutReader, if (currReaders >= getMaxReaders()) return false
CheckoutReaderTest(r) ==
    /\ rh[r] = "ctor"
    /\ rpc[r] = "co_chk"
    /\ IF rcurr[r] >= getMaxReaders
         THEN /\ rh' = [rh EXCEPT ![r] = "invalid"]
              /\ rpc' = [rpc EXCEPT ![r] = "idle"]
              /\ rcurr' = [rcurr EXCEPT ![r] = 0]
         ELSE /\ rpc' = [rpc EXCEPT ![r] = "co_cas"]
              /\ UNCHANGED <<rh, rcurr>>
    /\ UNCHANGED <<mgrVars, dataVars, wVars, rindex, rlr, rHist, aVars, aHist, gVars>>

\* Manager::checkoutReader, a retry of the compare_exchange
CheckoutReaderCas(r) ==
    /\ rh[r] = "ctor"
    /\ rpc[r] = "co_cas"
    /\ IF nReaders = rcurr[r]
         THEN /\ nReaders' = rcurr[r] + 1
              /\ rh' = [rh EXCEPT ![r] = "valid"]
              /\ rpc' = [rpc EXCEPT ![r] = "gl_load"]
              /\ rcurr' = [rcurr EXCEPT ![r] = 0]
              /\ NoteHandles
              /\ NoteCounters(0)
         ELSE /\ rpc' = [rpc EXCEPT ![r] = "co_chk"]
              /\ rcurr' = [rcurr EXCEPT ![r] = nReaders]
              /\ UNCHANGED <<nReaders, rh, achg, aquiet>>
    /\ UNCHANGED <<readersOf, latest, writerIndex, nWriters, sizeMutex, dataVars, wVars,
                   rindex, rlr, rHist, aVars, aobs, aLive, apre, gVars>>

\* ReadIndex::getLatest, index = latest.load()
GetLatestLoad(r) ==
    /\ rh[r] = "valid"
    /\ rpc[r] = "gl_load"
    /\ rindex' = [rindex EXCEPT ![r] = latest]
    /\ rlr' = [rlr EXCEPT ![r] = 0]
    /\ rpc' = [rpc EXCEPT ![r] = IF latest = -1 THEN "idle" ELSE "gl_cas"]
    /\ UNCHANGED <<mgrVars, dataVars, wVars, rh, rcurr, rHist, aVars, aHist, gVars>>

\* GetLatestCas with a reader that gives up (index = -1) when the cell it
\* loaded has become the draft, instead of loading latest again
GetLatestCasGiveUp(r) ==
    /\ rh[r] = "valid"
    /\ rpc[r] = "gl_cas"
    /\ IF readersOf[rindex[r]] = rlr[r]
         THEN /\ readersOf' = [readersOf EXCEPT ![rindex[r]] = rlr[r] + 1]
              /\ rpc' = [rpc EXCEPT ![r] = "idle"]
              /\ rlr' = [rlr EXCEPT ![r] = 0]
              /\ UNCHANGED rindex
         ELSE IF readersOf[rindex[r]] = -1
                THEN /\ rindex' = [rindex EXCEPT ![r] = -1]
                     /\ rpc' = [rpc EXCEPT ![r] = "idle"]
                     /\ rlr' = [rlr EXCEPT ![r] = 0]
                     /\ UNCHANGED readersOf
                ELSE /\ rlr' = [rlr EXCEPT ![r] = readersOf[rindex[r]]]
                     /\ UNCHANGED <<readersOf, rpc, rindex>>
    /\ UNCHANGED <<latest, writerIndex, nWriters, nReaders, sizeMutex, dataVars, wVars,
                   rh, rcurr, rHist, aVars, aHist, gVars>>

\* GetLatestCas with a loop that expects the same count again after a failed
\* compare_exchange on a cell that is not the draft
GetLatestCasSameExpected(r) ==
    /\ rh[r] = "valid"
    /\ rpc[r] = "gl_cas"
    /\ IF readersOf[rindex[r]] = rlr[r]
         THEN /\ readersOf' = [readersOf EXCEPT ![rindex[r]] = rlr[r] + 1]
              /\ rpc' = [rpc EXCEPT ![r] = "idle"]
              /\ rlr' = [rlr EXCEPT ![r] = 0]
         ELSE /\ rlr' = rlr
              /\ rpc' = [rpc EXCEPT ![r] = IF readersOf[rindex[r]] = -1 THEN "gl_reload" ELSE "gl_cas"]
              /\ UNCHANGED readersOf
    /\ UNCHANGED <<latest, writerIndex, nWriters, nReaders, sizeMutex, dataVars, wVars,
                   rh, rindex, rcurr, rHist, aVars, aHist, gVars>>

\* GetLatestCas with the compare-exchange loop replaced by a fetch_add, which
\* also counts a reader into a cell marked -1
GetLatestFetchAdd(r) ==
    /\ rh[r] = "valid"
    /\ rpc[r] = "gl_cas"
    /\ readersOf' = [readersOf EXCEPT ![rindex[r]] = readersOf[rindex[r]] + 1]
    /\ rpc' = [rpc EXCEPT ![r] = "idle"]
    /\ rlr' = [rlr EXCEPT ![r] = 0]
    /\ UNCHANGED <<latest, writerIndex, nWriters, nReaders, sizeMutex, dataVars, wVars,
                   rh, rindex, rcurr, rHist, aVars, aHist, gVars>>

\* GetLatestCas with the compare_exchange replaced by a plain store of the
\* count it expected plus one
GetLatestCasStore(r) ==
    /\ rh[r] = "valid"
    /\ rpc[r] = "gl_cas"
    /\ IF readersOf[rindex[r]] # -1
         THEN /\ readersOf' = [readersOf EXCEPT ![rindex[r]] = rlr[r] + 1]
              /\ rpc' = [rpc EXCEPT ![r] = "idle"]
              /\ rlr' = [rlr EXCEPT ![r] = 0]
         ELSE /\ rlr' = [rlr EXCEPT ![r] = -1]
              /\ rpc' = [rpc EXCEPT ![r] = "gl_reload"]
              /\ UNCHANGED readersOf
    /\ UNCHANGED <<latest, writerIndex, nWriters, nReaders, sizeMutex, dataVars, wVars,
                   rh, rindex, rcurr, rHist, aVars, aHist, gVars>>

\* ReadIndex::getLatest, one compare_exchange on readersOf[index]
GetLatestCas(r) ==
    /\ rh[r] = "valid"
    /\ rpc[r] = "gl_cas"
    /\ IF readersOf[rindex[r]] = rlr[r]
         THEN /\ readersOf' = [readersOf EXCEPT ![rindex[r]] = rlr[r] + 1]
              /\ rpc' = [rpc EXCEPT ![r] = "idle"]
              /\ rlr' = [rlr EXCEPT ![r] = 0]
         ELSE /\ rlr' = [rlr EXCEPT ![r] = readersOf[rindex[r]]]
              /\ rpc' = [rpc EXCEPT ![r] = IF readersOf[rindex[r]] = -1 THEN "gl_reload" ELSE "gl_cas"]
              /\ UNCHANGED readersOf
    /\ UNCHANGED <<latest, writerIndex, nWriters, nReaders, sizeMutex, dataVars, wVars,
                   rh, rindex, rcurr, rHist, aVars, aHist, gVars>>

\* ReadIndex::getLatest, index = latest.load() after readersOf[index] was -1
GetLatestReload(r) ==
    /\ rh[r] = "valid"
    /\ rpc[r] = "gl_reload"
    /\ rindex' = [rindex EXCEPT ![r] = latest]
    /\ rlr' = [rlr EXCEPT ![r] = 0]
    /\ rpc' = [rpc EXCEPT ![r] = IF latest = -1 THEN "gl_failed" ELSE "gl_cas"]
    /\ UNCHANGED <<mgrVars, dataVars, wVars, rh, rcurr, rHist, aVars, aHist, gVars>>

\* a call of ReadIndex::hasUpdate by the user of a Valid handle
HasUpdateCall(r) ==
    /\ rh[r] = "valid"
    /\ rpc[r] = "idle"
    /\ hasUpdate(r)
    /\ ~sawUpdate[r]
    /\ sawUpdate' = [sawUpdate EXCEPT ![r] = TRUE]
    /\ UNCHANGED <<mgrVars, dataVars, wVars, rVars, prevSeen, startPub, rcall, aVars, aHist, gVars>>

\* ReadIndex::hasUpdate called on a handle whose constructor set
\* owner = nullptr: owner->latest.load() comes before the test of valid and
\* dereferences a null pointer, which is undefined; the call either faults
\* or, where the build tests valid first, returns false
HasUpdateInvalid(r) ==
    /\ rh[r] = "invalid"
    /\ rpc[r] = "idle"
    /\ \/ /\ rpc' = [rpc EXCEPT ![r] = "hu_fault"]
          /\ UNCHANGED rcall
       \/ /\ rcall' = [rcall EXCEPT ![r] = "huFalse"]
          /\ UNCHANGED rpc
    /\ UNCHANGED <<mgrVars, dataVars, wVars, rh, rindex, rcurr, rlr,
                   prevSeen, startPub, sawUpdate, aVars, aHist, gVars>>

\* ReadIndex::pullUpdate, if (!valid || !hasUpdate()) return
PullUpdate(r, hist) ==
    /\ rh[r] \in {"valid", "invalid"}
    /\ rpc[r] = "idle"
    /\ IF rh[r] = "valid"
         THEN /\ rpc' = [rpc EXCEPT ![r] = IF hasUpdate(r) THEN "finish" ELSE "idle"]
              /\ startPub' = [startPub EXCEPT ![r] = IF hist THEN pubCount ELSE 0]
              /\ rcall' = [rcall EXCEPT ![r] = IF ~hist THEN "none" ELSE IF sawUpdate[r] THEN "pullHU" ELSE "pull"]
              /\ sawUpdate' = [sawUpdate EXCEPT ![r] = FALSE]
         ELSE UNCHANGED <<rpc, startPub, rcall, sawUpdate>>
    /\ UNCHANGED <<mgrVars, dataVars, wVars, rh, rindex, rcurr, rlr, prevSeen, aVars, aHist, gVars>>

\* FinishRead with a finishRead() that forgets the cell without decrementing
\* its reader count
FinishReadNoDecrement(r, hist) ==
    /\ rh[r] = "valid"
    /\ rpc[r] = "finish"
    /\ IF rindex[r] # -1
         THEN prevSeen' = [prevSeen EXCEPT ![r] = IF hist THEN data[rindex[r]] ELSE 0]
         ELSE UNCHANGED prevSeen
    /\ rindex' = [rindex EXCEPT ![r] = -1]
    /\ rpc' = [rpc EXCEPT ![r] = "gl_load"]
    /\ UNCHANGED <<readersOf, latest, writerIndex, nWriters, nReaders, sizeMutex, dataVars, wVars,
                   rh, rcurr, rlr, startPub, rcall, sawUpdate, aVars, aHist, gVars>>

\* FinishRead with a pullUpdate that returns after finishRead() without
\* calling getLatest()
FinishReadNoGetLatest(r, hist) ==
    /\ rh[r] = "valid"
    /\ rpc[r] = "finish"
    /\ IF rindex[r] # -1
         THEN /\ readersOf' = [readersOf EXCEPT ![rindex[r]] = readersOf[rindex[r]] - 1]
              /\ prevSeen' = [prevSeen EXCEPT ![r] = IF hist THEN data[rindex[r]] ELSE 0]
         ELSE UNCHANGED <<readersOf, prevSeen>>
    /\ rindex' = [rindex EXCEPT ![r] = -1]
    /\ rpc' = [rpc EXCEPT ![r] = "idle"]
    /\ UNCHANGED <<latest, writerIndex, nWriters, nReaders, sizeMutex, dataVars, wVars,
                   rh, rcurr, rlr, startPub, rcall, sawUpdate, aVars, aHist, gVars>>

\* ReadIndex::finishRead, called from pullUpdate
FinishRead(r, hist) ==
    /\ rh[r] = "valid"
    /\ rpc[r] = "finish"
    /\ IF rindex[r] # -1
         THEN /\ readersOf' = [readersOf EXCEPT ![rindex[r]] = readersOf[rindex[r]] - 1]
              /\ prevSeen' = [prevSeen EXCEPT ![r] = IF hist THEN data[rindex[r]] ELSE 0]
         ELSE UNCHANGED <<readersOf, prevSeen>>
    /\ rindex' = [rindex EXCEPT ![r] = -1]
    /\ rpc' = [rpc EXCEPT ![r] = "gl_load"]
    /\ UNCHANGED <<latest, writerIndex, nWriters, nReaders, sizeMutex, dataVars, wVars,
                   rh, rcurr, rlr, startPub, rcall, sawUpdate, aVars, aHist, gVars>>

\* ReadIndexDtor with a destructor that does not call finishRead()
ReadIndexDtorNoFinish(r) ==
    /\ rh[r] \in {"valid", "invalid"}
    /\ rpc[r] = "idle"
    /\ IF rh[r] = "valid"
         THEN /\ rpc' = [rpc EXCEPT ![r] = "d_return"]
              /\ UNCHANGED rh
         ELSE /\ rh' = [rh EXCEPT ![r] = "none"]
              /\ UNCHANGED rpc
    /\ rindex' = [rindex EXCEPT ![r] = -1]
    /\ prevSeen' = [prevSeen EXCEPT ![r] = 0]
    /\ startPub' = [startPub EXCEPT ![r] = 0]
    /\ rcall' = [rcall EXCEPT ![r] = "none"]
    /\ sawUpdate' = [sawUpdate EXCEPT ![r] = FALSE]
    /\ UNCHANGED <<readersOf, latest, writerIndex, nWriters, nReaders, sizeMutex, dataVars, wVars,
                   rcurr, rlr, aVars, aHist, gVars>>

\* ReadIndexDtor with a destructor that calls returnReader() whether or not
\* the handle is valid
ReadIndexDtorAlwaysReturns(r) ==
    /\ rh[r] \in {"valid", "invalid"}
    /\ rpc[r] = "idle"
    /\ IF rh[r] = "valid"
         THEN /\ rpc' = [rpc EXCEPT ![r] = "d_return"]
              /\ IF rindex[r] # -1
                   THEN readersOf' = [readersOf EXCEPT ![rindex[r]] = readersOf[rindex[r]] - 1]
                   ELSE UNCHANGED readersOf
              /\ UNCHANGED <<rh, nReaders>>
         ELSE /\ rh' = [rh EXCEPT ![r] = "none"]
              /\ nReaders' = nReaders - 1
              /\ UNCHANGED <<rpc, readersOf>>
    /\ rindex' = [rindex EXCEPT ![r] = -1]
    /\ prevSeen' = [prevSeen EXCEPT ![r] = 0]
    /\ startPub' = [startPub EXCEPT ![r] = 0]
    /\ rcall' = [rcall EXCEPT ![r] = "none"]
    /\ sawUpdate' = [sawUpdate EXCEPT ![r] = FALSE]
    /\ UNCHANGED <<latest, writerIndex, nWriters, sizeMutex, dataVars, wVars,
                   rcurr, rlr, aVars, aHist, gVars>>

\* ReadIndex::~ReadIndex, finishRead() when valid
ReadIndexDtor(r) ==
    /\ rh[r] \in {"valid", "invalid"}
    /\ rpc[r] = "idle"
    /\ IF rh[r] = "valid"
         THEN /\ rpc' = [rpc EXCEPT ![r] = "d_return"]
              /\ IF rindex[r] # -1
                   THEN readersOf' = [readersOf EXCEPT ![rindex[r]] = readersOf[rindex[r]] - 1]
                   ELSE UNCHANGED readersOf
              /\ UNCHANGED rh
         ELSE /\ rh' = [rh EXCEPT ![r] = "none"]
              /\ UNCHANGED <<rpc, readersOf>>
    /\ rindex' = [rindex EXCEPT ![r] = -1]
    /\ prevSeen' = [prevSeen EXCEPT ![r] = 0]
    /\ startPub' = [startPub EXCEPT ![r] = 0]
    /\ rcall' = [rcall EXCEPT ![r] = "none"]
    /\ sawUpdate' = [sawUpdate EXCEPT ![r] = FALSE]
    /\ UNCHANGED <<latest, writerIndex, nWriters, nReaders, sizeMutex, dataVars, wVars,
                   rcurr, rlr, aVars, aHist, gVars>>

\* ReadIndex::~ReadIndex, owner->returnReader()
ReadIndexReturn(r) ==
    /\ rh[r] = "valid"
    /\ rpc[r] = "d_return"
    /\ nReaders' = nReaders - 1
    /\ rh' = [rh EXCEPT ![r] = "none"]
    /\ rpc' = [rpc EXCEPT ![r] = "idle"]
    /\ NoteHandles
    /\ NoteCounters(0)
    /\ UNCHANGED <<readersOf, latest, writerIndex, nWriters, sizeMutex, dataVars, wVars,
                   rindex, rcurr, rlr, rHist, aVars, aobs, aLive, apre, gVars>>

\* ================= Manager::Lockout and Manager::reset =================

\* Lockout::isValid
isValid(a) == hasReadLock[a] /\ hasWriteLock[a]

\* a Lockout has been constructed valid and its destruction has not begun
LockoutHeld(a) == apc[a] \in {"held", "rs_latest", "rs_loop", "rs_zero", "mp_apply"} /\ isValid(a)

\* a thread calls reset() or constructs a Lockout (Container::map):
\* Manager::checkoutAllReaders, lockToLock.lock()
CheckoutAllReadersLock(a, k, hist) ==
    /\ apc[a] = "idle"
    /\ sizeMutex = FreeMutex
    /\ sizeMutex' = <<"admin", a>>
    /\ apc' = [apc EXCEPT ![a] = "lk_readers"]
    /\ akind' = [akind EXCEPT ![a] = k]
    /\ aobs' = [aobs EXCEPT ![a] = hist]
    /\ aLive' = [aLive EXCEPT ![a] = hist /\ AnyLiveHandle]
    /\ apre' = [apre EXCEPT ![a] = IF hist /\ k = "reset" THEN <<nWriters, nReaders>> ELSE <<0, 0>>]
    /\ UNCHANGED <<readersOf, latest, writerIndex, nWriters, nReaders, dataVars, wVars, rVars, rHist,
                   hasReadLock, hasWriteLock, ai, aret, achg, aquiet, gVars>>

\* CheckoutAllReadersCas with a plain store of currMaxReaders in place of the
\* compare_exchange
CheckoutAllReadersStore(a) ==
    /\ apc[a] = "lk_readers"
    /\ nReaders' = getMaxReaders
    /\ hasReadLock' = [hasReadLock EXCEPT ![a] = TRUE]
    /\ NoteCounters(a)
    /\ apc' = [apc EXCEPT ![a] = "lk_writer"]
    /\ UNCHANGED <<readersOf, latest, writerIndex, nWriters, sizeMutex, dataVars, wVars, rVars, rHist,
                   akind, hasWriteLock, ai, aret, aobs, aLive, achg, apre, gVars>>

\* Manager::checkoutAllReaders, compare_exchange_strong(0, currMaxReaders); unlock() if it failed
CheckoutAllReadersCas(a) ==
    /\ apc[a] = "lk_readers"
    /\ IF nReaders = 0
         THEN /\ nReaders' = getMaxReaders
              /\ hasReadLock' = [hasReadLock EXCEPT ![a] = TRUE]
              /\ NoteCounters(a)
              /\ UNCHANGED sizeMutex
         ELSE /\ sizeMutex' = FreeMutex
              /\ UNCHANGED <<nReaders, hasReadLock, aquiet>>
    /\ apc' = [apc EXCEPT ![a] = "lk_writer"]
    /\ UNCHANGED <<readersOf, latest, writerIndex, nWriters, dataVars, wVars, rVars, rHist,
                   akind, hasWriteLock, ai, aret, aobs, aLive, achg, apre, gVars>>

\* Lockout::Lockout, hasWriteLock(o.checkoutWriter()), valid(hasReadLock && hasWriteLock)
LockoutCtorWriter(a) ==
    /\ apc[a] = "lk_writer"
    /\ IF checkoutWriterOk
         THEN /\ nWriters' = 1
              /\ hasWriteLock' = [hasWriteLock EXCEPT ![a] = TRUE]
              /\ NoteCounters(a)
         ELSE UNCHANGED <<nWriters, hasWriteLock, aquiet>>
    /\ apc' = [apc EXCEPT ![a] = "held"]
    /\ aret' = [aret EXCEPT ![a] = IF akind[a] = "reset" THEN "none"
                                   ELSE IF hasReadLock[a] /\ checkoutWriterOk THEN "true" ELSE "false"]
    /\ UNCHANGED <<readersOf, latest, writerIndex, nReaders, sizeMutex, dataVars, wVars, rVars, rHist,
                   akind, hasReadLock, ai, aobs, aLive, achg, apre, gVars>>

\* ResetWriterIndex with writerIndex = 0 assigned before the validity of the
\* Lockout is tested
ResetWriterIndexEarly(a) ==
    /\ apc[a] = "held"
    /\ akind[a] = "reset"
    /\ writerIndex' = 0
    /\ IF isValid(a)
         THEN /\ apc' = [apc EXCEPT ![a] = "rs_latest"]
              /\ UNCHANGED aret
         ELSE /\ aret' = [aret EXCEPT ![a] = "false"]
              /\ apc' = [apc EXCEPT ![a] = "ul_readers"]
    /\ UNCHANGED <<readersOf, latest, nWriters, nReaders, sizeMutex, dataVars, wVars, rVars, rHist,
                   akind, hasReadLock, hasWriteLock, ai, aHist, gVars>>

\* Manager::reset, if (!lock.isValid()) return false; writerIndex = 0
ResetWriterIndex(a) ==
    /\ apc[a] = "held"
    /\ akind[a] = "reset"
    /\ IF isValid(a)
         THEN /\ writerIndex' = 0
              /\ apc' = [apc EXCEPT ![a] = "rs_latest"]
              /\ UNCHANGED aret
         ELSE /\ aret' = [aret EXCEPT ![a] = "false"]
              /\ apc' = [apc EXCEPT ![a] = "ul_readers"]
              /\ UNCHANGED writerIndex
    /\ UNCHANGED <<readersOf, latest, nWriters, nReaders, sizeMutex, dataVars, wVars, rVars, rHist,
                   akind, hasReadLock, hasWriteLock, ai, aHist, gVars>>

\* Manager::reset, latest.store(-1); int currSize = readersOf.size()
ResetLatest(a) ==
    /\ apc[a] = "rs_latest"
    /\ latest' = -1
    /\ lastReset' = pubCount
    /\ ai' = [ai EXCEPT ![a] = 1]
    /\ apc' = [apc EXCEPT ![a] = "rs_loop"]
    /\ UNCHANGED <<readersOf, writerIndex, nWriters, nReaders, sizeMutex, data, pubCount, wVars, rVars, rHist,
                   akind, hasReadLock, hasWriteLock, aret, aHist, gVars>>

\* ResetLoop with a loop that stops one cell before the end of the table
ResetLoopShort(a) ==
    /\ apc[a] = "rs_loop"
    /\ IF ai[a] < size - 1
         THEN /\ readersOf' = [readersOf EXCEPT ![ai[a]] = 0]
              /\ ai' = [ai EXCEPT ![a] = ai[a] + 1]
              /\ UNCHANGED apc
         ELSE /\ apc' = [apc EXCEPT ![a] = "rs_zero"]
              /\ ai' = [ai EXCEPT ![a] = 0]
              /\ UNCHANGED readersOf
    /\ UNCHANGED <<latest, writerIndex, nWriters, nReaders, sizeMutex, dataVars, wVars, rVars, rHist,
                   akind, hasReadLock, hasWriteLock, aret, aHist, gVars>>

\* Manager::reset, for (i = 1; i < currSize; ++i) readersOf[i].store(0)
ResetLoop(a) ==
    /\ apc[a] = "rs_loop"
    /\ IF ai[a] < size
         THEN /\ readersOf' = [readersOf EXCEPT ![ai[a]] = 0]
              /\ ai' = [ai EXCEPT ![a] = ai[a] + 1]
              /\ UNCHANGED apc
         ELSE /\ apc' = [apc EXCEPT ![a] = "rs_zero"]
              /\ ai' = [ai EXCEPT ![a] = 0]
              /\ UNCHANGED readersOf
    /\ UNCHANGED <<latest, writerIndex, nWriters, nReaders, sizeMutex, dataVars, wVars, rVars, rHist,
                   akind, hasReadLock, hasWriteLock, aret, aHist, gVars>>

\* Manager::reset, readersOf[0].store(-1); return true
ResetZero(a) ==
    /\ apc[a] = "rs_zero"
    /\ readersOf' = [readersOf EXCEPT ![0] = -1]
    /\ aret' = [aret EXCEPT ![a] = "true"]
    /\ apc' = [apc EXCEPT ![a] = "ul_readers"]
    /\ UNCHANGED <<latest, writerIndex, nWriters, nReaders, sizeMutex, dataVars, wVars, rVars, rHist,
                   akind, hasReadLock, hasWriteLock, ai, aHist, gVars>>

\* the owner of a Lockout lets it go out of scope
LockoutRelease(a) ==
    /\ apc[a] = "held"
    /\ akind[a] = "lockout"
    /\ apc' = [apc EXCEPT ![a] = "ul_readers"]
    /\ UNCHANGED <<mgrVars, dataVars, wVars, rVars, rHist,
                   akind, hasReadLock, hasWriteLock, ai, aret, aHist, gVars>>

\* Container::map, if (!lock.isValid()) return false; dataSizeLock.lock()
MapLockData(a) ==
    /\ apc[a] = "held"
    /\ akind[a] = "map"
    /\ IF isValid(a)
         THEN /\ dataSizeMutex = FreeMutex
              /\ dataSizeMutex' = <<"map", a>>
              /\ apc' = [apc EXCEPT ![a] = "mp_apply"]
         ELSE /\ apc' = [apc EXCEPT ![a] = "ul_readers"]
              /\ UNCHANGED dataSizeMutex
    /\ UNCHANGED <<mgrVars, dataVars, wVars, rVars, rHist,
                   akind, hasReadLock, hasWriteLock, ai, aret, aHist, gpc, gnew>>

\* Container::map, f(*original) and f(instance) for every instance, with an
\* f that reads the instance and counts its calls in ai
\* (src/test/VS2013/TestRWSync/Main.cpp:45-50);
\* return true releases dataSizeLock before the Lockout is destroyed
MapApply(a) ==
    /\ apc[a] = "mp_apply"
    /\ ai' = [ai EXCEPT ![a] = 1 + Cardinality(DOMAIN data)]
    /\ dataSizeMutex' = FreeMutex
    /\ apc' = [apc EXCEPT ![a] = "ul_readers"]
    /\ UNCHANGED <<mgrVars, dataVars, wVars, rVars, rHist,
                   akind, hasReadLock, hasWriteLock, aret, aHist, gpc, gnew>>

\* Lockout::~Lockout, returnAllReaders: nReaders.store(0)
ReturnAllReadersStore(a) ==
    /\ apc[a] = "ul_readers"
    /\ IF hasReadLock[a]
         THEN /\ nReaders' = 0
              /\ apc' = [apc EXCEPT ![a] = "ul_unlock"]
              /\ NoteCounters(a)
         ELSE /\ apc' = [apc EXCEPT ![a] = "ul_writer"]
              /\ UNCHANGED <<nReaders, aquiet>>
    /\ UNCHANGED <<readersOf, latest, writerIndex, nWriters, sizeMutex, dataVars, wVars, rVars, rHist,
                   akind, hasReadLock, hasWriteLock, ai, aret, aobs, aLive, achg, apre, gVars>>

\* Lockout::~Lockout, returnAllReaders: lockToUnlock.unlock()
ReturnAllReadersUnlock(a) ==
    /\ apc[a] = "ul_unlock"
    /\ sizeMutex' = FreeMutex
    /\ hasReadLock' = [hasReadLock EXCEPT ![a] = FALSE]
    /\ apc' = [apc EXCEPT ![a] = "ul_writer"]
    /\ UNCHANGED <<readersOf, latest, writerIndex, nWriters, nReaders, dataVars, wVars, rVars, rHist,
                   akind, hasWriteLock, ai, aret, aHist, gVars>>

\* LockoutDtorWriter with a destructor that returns the writer slot whether
\* or not this Lockout holds it
LockoutDtorWriterAlways(a) ==
    /\ apc[a] = "ul_writer"
    /\ nWriters' = 0
    /\ hasWriteLock' = [hasWriteLock EXCEPT ![a] = FALSE]
    /\ apc' = [apc EXCEPT ![a] = "idle"]
    /\ akind' = [akind EXCEPT ![a] = "reset"]
    /\ aret' = [aret EXCEPT ![a] = "none"]
    /\ aobs' = [aobs EXCEPT ![a] = FALSE]
    /\ aLive' = [aLive EXCEPT ![a] = FALSE]
    /\ achg' = [achg EXCEPT ![a] = FALSE]
    /\ apre' = [apre EXCEPT ![a] = <<0, 0>>]
    /\ aquiet' = [b \in Admins |-> IF b = a THEN TRUE
                                   ELSE IF hasWriteLock[a] /\ aobs[b] /\ InCall(b) /\ akind[b] = "reset" THEN FALSE
                                   ELSE aquiet[b]]
    /\ ai' = [ai EXCEPT ![a] = 0]
    /\ UNCHANGED <<readersOf, latest, writerIndex, nReaders, sizeMutex, dataVars, wVars, rVars, rHist,
                   hasReadLock, gVars>>

\* Lockout::~Lockout, if (hasWriteLock) owner->returnWriter(); the call returns
LockoutDtorWriter(a) ==
    /\ apc[a] = "ul_writer"
    /\ IF hasWriteLock[a]
         THEN nWriters' = 0
         ELSE UNCHANGED nWriters
    /\ hasWriteLock' = [hasWriteLock EXCEPT ![a] = FALSE]
    /\ apc' = [apc EXCEPT ![a] = "idle"]
    /\ akind' = [akind EXCEPT ![a] = "reset"]
    /\ aret' = [aret EXCEPT ![a] = "none"]
    /\ aobs' = [aobs EXCEPT ![a] = FALSE]
    /\ aLive' = [aLive EXCEPT ![a] = FALSE]
    /\ achg' = [achg EXCEPT ![a] = FALSE]
    /\ apre' = [apre EXCEPT ![a] = <<0, 0>>]
    /\ aquiet' = [b \in Admins |-> IF b = a THEN TRUE
                                   ELSE IF hasWriteLock[a] /\ aobs[b] /\ InCall(b) /\ akind[b] = "reset" THEN FALSE
                                   ELSE aquiet[b]]
    /\ ai' = [ai EXCEPT ![a] = 0]
    /\ UNCHANGED <<readersOf, latest, writerIndex, nReaders, sizeMutex, dataVars, wVars, rVars, rHist,
                   hasReadLock, gVars>>

\* ================= growing the table =================

\* the table with one more cell: readersOf.emplace_back(0)
emplace_back(f, v) == [i \in 0..Cardinality(DOMAIN f) |-> IF i \in DOMAIN f THEN f[i] ELSE v]

\* the user's storage with cells for n readers (Container::increaseMaxReadersTo, step 1)
ensureData(d, n) == [i \in 0..(IF n + 2 > Cardinality(DOMAIN d) THEN n + 1 ELSE Cardinality(DOMAIN d) - 1) |->
                        IF i \in DOMAIN d THEN d[i] ELSE 0]

\* GrowBegin with an increaseMaxReadersTo that skips step 1 and leaves the
\* storage as it is
GrowBeginNoData(n) ==
    /\ gpc[0] = "idle"
    /\ dataSizeMutex = FreeMutex
    /\ dataSizeMutex' = <<"grow", 0>>
    /\ gnew' = [gnew EXCEPT ![0] = n]
    /\ gpc' = [gpc EXCEPT ![0] = "g_lock"]
    /\ UNCHANGED <<mgrVars, dataVars, wVars, rVars, rHist, aVars, aHist>>

\* thread 0 calls Container::increaseMaxReadersTo(n): lock_guard
\* dataSizeLock(dataSizeMutex) and step 1, the storage for n readers
GrowBegin(n) ==
    /\ gpc[0] = "idle"
    /\ dataSizeMutex = FreeMutex
    /\ dataSizeMutex' = <<"grow", 0>>
    /\ gnew' = [gnew EXCEPT ![0] = n]
    /\ data' = ensureData(data, n)
    /\ gpc' = [gpc EXCEPT ![0] = "g_lock"]
    /\ UNCHANGED <<mgrVars, pubCount, lastReset, wVars, rVars, rHist, aVars, aHist>>

\* Manager::ensureSpaceForReaders, lock_guard sizeGuard(sizeMutex)
EnsureSpaceLock(t) ==
    /\ gpc[t] = "g_lock"
    /\ sizeMutex = FreeMutex
    /\ sizeMutex' = <<"grow", t>>
    /\ gpc' = [gpc EXCEPT ![t] = "g_add"]
    /\ UNCHANGED <<readersOf, latest, writerIndex, nWriters, nReaders, dataVars, wVars, rVars, rHist,
                   aVars, aHist, gnew, dataSizeMutex>>

\* EnsureSpaceAdd with appended cells that start marked as draft
EnsureSpaceAddMarked(t) ==
    /\ gpc[t] = "g_add"
    /\ IF getMaxReaders >= gnew[t]
         THEN /\ gpc' = [gpc EXCEPT ![t] = "g_unlock"]
              /\ UNCHANGED readersOf
         ELSE /\ readersOf' = emplace_back(readersOf, -1)
              /\ UNCHANGED gpc
    /\ UNCHANGED <<latest, writerIndex, nWriters, nReaders, sizeMutex, dataVars, wVars, rVars, rHist,
                   aVars, aHist, gnew, dataSizeMutex>>

\* EnsureSpaceAdd with the test written currMaxReaders > newMaxReaders
EnsureSpaceAddOffByOne(t) ==
    /\ gpc[t] = "g_add"
    /\ IF getMaxReaders > gnew[t]
         THEN /\ gpc' = [gpc EXCEPT ![t] = "g_unlock"]
              /\ UNCHANGED readersOf
         ELSE /\ readersOf' = emplace_back(readersOf, 0)
              /\ gpc' = [gpc EXCEPT ![t] = IF getMaxReaders >= gnew[t] THEN "g_unlock" ELSE "g_add"]
    /\ UNCHANGED <<latest, writerIndex, nWriters, nReaders, sizeMutex, dataVars, wVars, rVars, rHist,
                   aVars, aHist, gnew, dataSizeMutex>>

\* Manager::ensureSpaceForReaders, the test and one emplace_back of the loop
EnsureSpaceAdd(t) ==
    /\ gpc[t] = "g_add"
    /\ IF getMaxReaders >= gnew[t]
         THEN /\ gpc' = [gpc EXCEPT ![t] = "g_unlock"]
              /\ UNCHANGED readersOf
         ELSE /\ readersOf' = emplace_back(readersOf, 0)
              /\ UNCHANGED gpc
    /\ UNCHANGED <<latest, writerIndex, nWriters, nReaders, sizeMutex, dataVars, wVars, rVars, rHist,
                   aVars, aHist, gnew, dataSizeMutex>>

\* Manager::ensureSpaceForReaders returns (sizeGuard released), then
\* Container::increaseMaxReadersTo returns (dataSizeLock released); a
\* GuaranteedReadPtr constructor goes back to the test of its loop
EnsureSpaceUnlock(t) ==
    /\ gpc[t] = "g_unlock"
    /\ sizeMutex' = FreeMutex
    /\ dataSizeMutex' = FreeMutex
    /\ gpc' = [gpc EXCEPT ![t] = IF t = 0 THEN "idle" ELSE "g_retry"]
    /\ gnew' = [gnew EXCEPT ![t] = IF t = 0 THEN 0 ELSE gnew[t]]
    /\ UNCHANGED <<readersOf, latest, writerIndex, nWriters, nReaders, dataVars, wVars, rVars, rHist,
                   aVars, aHist>>

\* ================= GuaranteedReadPtr =================

\* ReadIndex::tryToMakeValid on a handle that is not valid ("tries to claim
\* reader status if we don't have it already"): the first compare_exchange of
\* checkoutReader, followed by getLatest() when it succeeds
TryToMakeValid(r) ==
    /\ rh[r] = "invalid"
    /\ rpc[r] = "idle"
    /\ gpc[r] \in {"idle", "g_retry"}
    /\ IF nReaders = 0
         THEN /\ nReaders' = 1
              /\ rh' = [rh EXCEPT ![r] = "valid"]
              /\ rpc' = [rpc EXCEPT ![r] = "gl_load"]
              /\ rcurr' = rcurr
              /\ NoteHandles
              /\ NoteCounters(0)
         ELSE /\ rh' = [rh EXCEPT ![r] = "ctor"]
              /\ rpc' = [rpc EXCEPT ![r] = "co_chk"]
              /\ rcurr' = [rcurr EXCEPT ![r] = nReaders]
              /\ UNCHANGED <<nReaders, achg, aquiet>>
    /\ gpc' = [gpc EXCEPT ![r] = "g_try"]
    /\ UNCHANGED <<readersOf, latest, writerIndex, nWriters, sizeMutex, dataVars, wVars,
                   rindex, rlr, rHist, aVars, aobs, aLive, apre, gnew, dataSizeMutex>>

\* GuaranteedReadPtr with a loop that asks for two more readers than allocated
GuaranteedGrowByTwo(r) ==
    /\ rh[r] = "invalid"
    /\ rpc[r] = "idle"
    /\ gpc[r] = "g_try"
    /\ getMaxReaders < MaxReadersCap
    /\ gnew' = [gnew EXCEPT ![r] = getMaxReaders + 2]
    /\ gpc' = [gpc EXCEPT ![r] = "g_data"]
    /\ UNCHANGED <<mgrVars, dataVars, wVars, rVars, rHist, aVars, aHist, dataSizeMutex>>

\* GuaranteedReadPtr::GuaranteedReadPtr, tryToMakeValid() returned false:
\* the argument o.getMaxReaders() + 1 of increaseMaxReadersTo
GuaranteedGrowBegin(r) ==
    /\ rh[r] = "invalid"
    /\ rpc[r] = "idle"
    /\ gpc[r] = "g_try"
    /\ getMaxReaders < MaxReadersCap
    /\ gnew' = [gnew EXCEPT ![r] = getMaxReaders + 1]
    /\ gpc' = [gpc EXCEPT ![r] = "g_data"]
    /\ UNCHANGED <<mgrVars, dataVars, wVars, rVars, rHist, aVars, aHist, dataSizeMutex>>

\* Container::increaseMaxReadersTo called by the GuaranteedReadPtr constructor:
\* lock_guard dataSizeLock(dataSizeMutex) and step 1
IncreaseMaxReadersTo(r) ==
    /\ gpc[r] = "g_data"
    /\ dataSizeMutex = FreeMutex
    /\ dataSizeMutex' = <<"grow", r>>
    /\ data' = ensureData(data, gnew[r])
    /\ gpc' = [gpc EXCEPT ![r] = "g_lock"]
    /\ UNCHANGED <<mgrVars, pubCount, lastReset, wVars, rVars, rHist, aVars, aHist, gnew>>

\* GuaranteedReadPtr::GuaranteedReadPtr, tryToMakeValid() returned true: the
\* constructor returns
GuaranteedReadPtrDone(r) ==
    /\ rh[r] = "valid"
    /\ rpc[r] = "idle"
    /\ gpc[r] = "g_try"
    /\ gpc' = [gpc EXCEPT ![r] = "idle"]
    /\ gnew' = [gnew EXCEPT ![r] = 0]
    /\ UNCHANGED <<mgrVars, dataVars, wVars, rVars, rHist, aVars, aHist, dataSizeMutex>>

\* ReadPtr::pullUpdate on a constructed GuaranteedReadPtr
GuaranteedPullUpdate(r) ==
    /\ rh[r] = "valid"
    /\ gpc[r] = "idle"
    /\ PullUpdate(r, FALSE)

\* a constructed GuaranteedReadPtr is destroyed: ~ReadIndex
GuaranteedReadPtrDtor(r) ==
    /\ rh[r] = "valid"
    /\ gpc[r] = "idle"
    /\ ReadIndexDtor(r)

\* the constructor of the GuaranteedReadPtr of thread r has not returned
Constructing(r) == rh[r] \in {"ctor", "invalid"} \/ gpc[r] # "idle"

\* the GuaranteedReadPtr of thread r is constructed and admitted
Admitted(r) == rh[r] = "valid" /\ rpc[r] = "idle" /\ gpc[r] = "idle"

\* ================= specification =================

WriterStep(w, cap) ==
    \/ WriteIndexCtor(w)
    \/ WriteIndexDtor(w)
    \/ WriteDraft(w, cap)
    \/ PushWriteRelease(w)
    \/ PushWriteLatest(w)
    \/ PushWriteSize(w)
    \/ PushWriteScan(w)

\* hist: whether the history of this reader's calls is recorded
ReaderStep(r, hist) ==
    \/ ReadIndexCtor(r, hist)
    \/ CheckoutReaderTest(r)
    \/ CheckoutReaderCas(r)
    \/ GetLatestLoad(r)
    \/ GetLatestCas(r)
    \/ GetLatestReload(r)
    \/ PullUpdate(r, hist)
    \/ FinishRead(r, hist)
    \/ ReadIndexDtor(r)
    \/ ReadIndexReturn(r)

\* construction and destruction of a Lockout, by reset() (k = "reset") or by
\* its user (k = "lockout"); hist: whether the history of the call is recorded
LockoutStep(a, k, hist) ==
    \/ CheckoutAllReadersLock(a, k, hist)
    \/ CheckoutAllReadersCas(a)
    \/ LockoutCtorWriter(a)
    \/ ReturnAllReadersStore(a)
    \/ ReturnAllReadersUnlock(a)
    \/ LockoutDtorWriter(a)

\* the body of Manager::reset
ResetStep(a) ==
    \/ ResetWriterIndex(a)
    \/ ResetLatest(a)
    \/ ResetLoop(a)
    \/ ResetZero(a)

GrowStep ==
    \/ GrowBegin(MaxReadersCap)
    \/ EnsureSpaceLock(0)
    \/ EnsureSpaceAdd(0)
    \/ EnsureSpaceUnlock(0)

\* thread 0 calls increaseMaxReadersTo with any argument up to one more than
\* the largest initial maxReaders
GrowAnyStep ==
    \/ \E n \in MinMaxReaders..(MaxReadersCap + 1) : GrowBegin(n)
    \/ EnsureSpaceLock(0)
    \/ EnsureSpaceAdd(0)
    \/ EnsureSpaceUnlock(0)

\* a reader thread in a specification that has no other reader and no thread
\* growing the table: the retry of the compare_exchange in checkoutReader
\* needs a currReaders with 0 < currReaders < getMaxReaders()
SoleReaderStep(r) ==
    \/ ReadIndexCtor(r, FALSE)
    \/ CheckoutReaderTest(r)
    \/ GetLatestLoad(r)
    \/ GetLatestCas(r)
    \/ GetLatestReload(r)
    \/ PullUpdate(r, FALSE)
    \/ FinishRead(r, FALSE)
    \/ ReadIndexDtor(r)
    \/ ReadIndexReturn(r)

\* a thread that constructs, uses and destroys a GuaranteedReadPtr, in a
\* specification where no other thread checks out a reader or grows the
\* table: the retry of the compare_exchange in checkoutReader needs a
\* currReaders with 0 < currReaders < getMaxReaders()
SoleGuaranteedStep(r) ==
    \/ ReadIndexCtor(r, FALSE)
    \/ CheckoutReaderTest(r)
    \/ GetLatestLoad(r)
    \/ GetLatestCas(r)
    \/ GetLatestReload(r)
    \/ TryToMakeValid(r)
    \/ GuaranteedGrowBegin(r)
    \/ IncreaseMaxReadersTo(r)
    \/ EnsureSpaceLock(r)
    \/ EnsureSpaceAdd(r)
    \/ EnsureSpaceUnlock(r)
    \/ GuaranteedReadPtrDone(r)
    \/ GuaranteedPullUpdate(r)
    \/ FinishRead(r, FALSE)
    \/ GuaranteedReadPtrDtor(r)
    \/ ReadIndexReturn(r)

\* a thread that constructs, uses and destroys a GuaranteedReadPtr
GuaranteedStep(r) ==
    \/ SoleGuaranteedStep(r)
    \/ CheckoutReaderCas(r)

\* a thread that calls Container::map
MapStep(a) ==
    \/ LockoutStep(a, "map", FALSE)
    \/ MapLockData(a)
    \/ MapApply(a)

\* a thread that calls Container::map and whose calls are recorded
MapStepObserved(a) ==
    \/ LockoutStep(a, "map", TRUE)
    \/ MapLockData(a)
    \/ MapApply(a)

\* one writer, two readers and a thread growing the table
Next ==
    \/ \E w \in {1} : WriterStep(w, MaxPub)
    \/ \E r \in Readers : ReaderStep(r, FALSE)
    \/ GrowStep

Spec == Init /\ [][Next]_vars

\* one writer and two readers; the calls of reader 1 are recorded
NextRW ==
    \/ \E w \in {1} : WriterStep(w, MaxPub)
    \/ \E r \in {1} : ReaderStep(r, TRUE) \/ HasUpdateCall(r)
    \/ \E r \in {2} : ReaderStep(r, FALSE)

SpecRW == Init /\ [][NextRW]_vars

\* one writer, two readers (the calls of reader 1 are recorded) and a thread
\* that calls reset()
NextReset ==
    \/ \E w \in {1} : WriterStep(w, MaxPubAdmin)
    \/ \E r \in {1} : ReaderStep(r, TRUE)
    \/ \E r \in {2} : ReaderStep(r, FALSE)
    \/ \E a \in {1} : LockoutStep(a, "reset", FALSE) \/ ResetStep(a)

SpecReset == Init /\ [][NextReset]_vars

\* a writer, a second thread constructing WriteIndex handles, two readers,
\* a thread holding a Lockout and a thread growing the table
NextGate ==
    \/ \E w \in {1} : WriterStep(w, MaxPubAdmin)
    \/ \E w \in {2} : WriteIndexCtor(w) \/ WriteIndexDtor(w)
    \/ \E w \in Writers : PushUpdateInvalid(w)
    \/ \E r \in Readers : ReaderStep(r, FALSE)
    \/ \E a \in {1} : LockoutStep(a, "lockout", FALSE) \/ LockoutRelease(a)
    \/ GrowStep

SpecGate == Init /\ [][NextGate]_vars

\* two threads calling reset() (the calls of thread 1 are recorded), a writer
\* and a reader
NextAdmin ==
    \/ \E w \in {1} : WriterStep(w, MaxPubAdmin)
    \/ \E r \in {1} : SoleReaderStep(r)
    \/ \E a \in {1} : LockoutStep(a, "reset", TRUE) \/ ResetStep(a)
    \/ \E a \in {2} : LockoutStep(a, "reset", FALSE) \/ ResetStep(a)

SpecAdmin == Init /\ [][NextAdmin]_vars

\* an expandable container with at most as many allocated readers as there
\* are reader threads
InitGuar == Init /\ getMaxReaders <= Cardinality(Readers)

\* one writer and two threads that read through a GuaranteedReadPtr
NextGuar ==
    \/ \E w \in {1} : WriterStep(w, MaxPubAdmin)
    \/ \E r \in Readers : GuaranteedStep(r)

SpecGuar == InitGuar /\ [][NextGuar]_vars

\* one writer, one thread that reads through a GuaranteedReadPtr and one
\* thread that calls map
NextMap ==
    \/ \E w \in {1} : WriterStep(w, MaxPubAdmin)
    \/ \E r \in {1} : SoleGuaranteedStep(r)
    \/ \E a \in {1} : MapStep(a)

SpecMap == Init /\ [][NextMap]_vars

\* fair scheduling: every thread takes a step it is able to take infinitely
\* often (a mutex is granted to a thread that is waiting for it whenever it is
\* free infinitely often), and a pushWrite that has begun continues
FairMap ==
    /\ \A r \in {1} : SF_vars(SoleGuaranteedStep(r))
    /\ \A a \in {1} : SF_vars(MapStep(a))
    /\ \A w \in {1} : WF_vars(PushWriteLatest(w) \/ PushWriteSize(w) \/ PushWriteScan(w))

SpecMapFair == Init /\ [][NextMap]_vars /\ FairMap

\* a writer, a reader, a thread that calls reset() and a thread that grows
\* the table
NextGrow ==
    \/ \E w \in {1} : WriterStep(w, MaxPubAdmin)
    \/ \E r \in {1} : ReaderStep(r, FALSE)
    \/ \E a \in {1} : LockoutStep(a, "reset", FALSE) \/ ResetStep(a)
    \/ GrowAnyStep

SpecGrow == Init /\ [][NextGrow]_vars

\* a writer, two readers, a thread constructing and releasing a Lockout and a
\* thread growing the table
NextFast ==
    \/ \E w \in {1} : WriterStep(w, MaxPubAdmin)
    \/ \E r \in Readers : ReaderStep(r, FALSE)
    \/ \E a \in {1} : LockoutStep(a, "lockout", FALSE) \/ LockoutRelease(a)
    \/ GrowStep

\* the writer thread keeps running once it is inside pushWrite; nothing is
\* assumed about the scheduling of the other threads
FairWriter == \A w \in {1} : WF_vars(PushWriteLatest(w) \/ PushWriteSize(w) \/ PushWriteScan(w))

SpecFastW == Init /\ [][NextFast]_vars /\ FairWriter

\* one writer and two readers
NextReaders ==
    \/ \E w \in {1} : WriterStep(w, MaxPub)
    \/ \E r \in Readers : ReaderStep(r, FALSE)

\* a reader thread keeps running once it is inside a constructor or a
\* pullUpdate
FairReaders ==
    \A r \in Readers : WF_vars(CheckoutReaderTest(r) \/ CheckoutReaderCas(r) \/ GetLatestLoad(r)
                               \/ GetLatestCas(r) \/ GetLatestReload(r) \/ FinishRead(r, FALSE))

SpecReadFair == Init /\ [][NextReaders]_vars /\ FairWriter /\ FairReaders

\* a writer, a reader, a thread constructing and releasing a Lockout and a
\* thread growing the table
NextMutex ==
    \/ \E w \in {1} : WriterStep(w, MaxPubAdmin)
    \/ \E r \in {1} : ReaderStep(r, FALSE)
    \/ \E a \in {1} : LockoutStep(a, "lockout", FALSE) \/ LockoutRelease(a)
    \/ GrowStep

\* the reader thread keeps running once it is inside a constructor or a
\* pullUpdate
FairSoleReader ==
    \A r \in {1} : WF_vars(CheckoutReaderTest(r) \/ CheckoutReaderCas(r) \/ GetLatestLoad(r)
                           \/ GetLatestCas(r) \/ GetLatestReload(r) \/ FinishRead(r, FALSE))

\* the writer and the reader keep running inside their calls; the thread that
\* holds a Lockout and the thread that grows the table may stop anywhere, also
\* while they hold sizeMutex
SpecMutexFair == Init /\ [][NextMutex]_vars /\ FairWriter /\ FairSoleReader

\* two threads calling map (the calls of thread 1 are recorded), a writer and
\* a reader
NextMaps ==
    \/ \E w \in {1} : WriterStep(w, MaxPubAdmin)
    \/ \E r \in {1} : SoleReaderStep(r)
    \/ \E a \in {1} : MapStepObserved(a)
    \/ \E a \in {2} : MapStep(a)

SpecMaps == Init /\ [][NextMaps]_vars

\* one writer and two readers whose users call hasUpdate on whatever handle
\* they hold, Valid or not
NextHasUpdate ==
    \/ \E w \in {1} : WriterStep(w, MaxPub)
    \/ \E r \in Readers : ReaderStep(r, FALSE) \/ HasUpdateCall(r) \/ HasUpdateInvalid(r)

SpecHasUpdate == Init /\ [][NextHasUpdate]_vars

\* a writer, a reader, a thread that calls map and a thread that calls
\* increaseMaxReadersTo
NextMapGrow ==
    \/ \E w \in {1} : WriterStep(w, MaxPubAdmin)
    \/ \E r \in {1} : ReaderStep(r, FALSE)
    \/ \E a \in {1} : MapStep(a)
    \/ GrowStep

\* fair scheduling of the two admin threads (a mutex is granted to a thread
\* that is waiting for it whenever it is free infinitely often), and a
\* pushWrite that has begun continues
FairMapGrow ==
    /\ \A a \in {1} : SF_vars(MapStep(a))
    /\ SF_vars(GrowStep)
    /\ \A w \in {1} : WF_vars(PushWriteLatest(w) \/ PushWriteSize(w) \/ PushWriteScan(w))

SpecMapGrow == Init /\ [][NextMapGrow]_vars /\ FairMapGrow

\* the user of a Valid ReadIndex keeps calling pullUpdate
FairPull == \A r \in Readers : WF_vars(PullUpdate(r, FALSE))

\* one writer and two readers that keep calling pullUpdate while they hold a
\* Valid handle
SpecConverge == Init /\ [][NextReaders]_vars /\ FairWriter /\ FairReaders /\ FairPull

\* ================= properties =================

\* a call of the reader has returned and the handle is Valid
Returned(r) == rh[r] = "valid" /\ rpc[r] = "idle"

\* C1: monotonic visibility: the value in the cell a ReadIndex is latched on
\* is never older than the value it held before its last pullUpdate.
C1_MonotonicVisibility ==
    \A r \in Readers : Latched(r) => data[rindex[r]] >= prevSeen[r]

\* C2: no torn reads: a cell a reader is latched on has a reader count of at
\* least 1, so the scan of pushWrite (which claims cells with count 0) cannot
\* make it the draft, and while the writer is outside pushWrite no latched
\* reader's index is writerIndex.
C2_NoTornReads ==
    \A r \in Readers : Latched(r) =>
        /\ readersOf[rindex[r]] >= 1
        /\ wpc = "idle" => rindex[r] # writerIndex

\* C2: a reader is latched on an older value while the writer has published
\* since and has mutated its draft again
C2_Witness ==
    \E r \in Readers :
        /\ Latched(r)
        /\ wpc = "idle"
        /\ wh[1] = "valid"
        /\ data[writerIndex] = pubCount + 1
        /\ data[rindex[r]] < pubCount

\* C3, as the specification states it: when a construction or a pullUpdate that began
\* after publication number startPub returns on a Valid handle, the handle is
\* latched on a cell holding that publication or a later one.
C3_MostRecentWins ==
    \A r \in Readers :
        (Returned(r) /\ rcall[r] \in {"ctor", "pull", "pullHU"} /\ startPub[r] >= 1)
            => (Latched(r) /\ data[rindex[r]] >= startPub[r])

\* C3, amended: the same, for a publication that no successful reset() has
\* followed (reset() stores latest <- -1, after which a reader finds nothing
\* to latch until the next publication).
C3_MostRecentWinsSinceReset ==
    \A r \in Readers :
        (Returned(r) /\ rcall[r] \in {"ctor", "pull", "pullHU"} /\ startPub[r] >= 1
            /\ startPub[r] > lastReset)
            => (Latched(r) /\ data[rindex[r]] >= startPub[r])

\* C3: a pullUpdate has returned that began after a publication which itself
\* came after a successful reset()
C3_Witness ==
    \E r \in Readers :
        /\ Returned(r)
        /\ rcall[r] = "pull"
        /\ lastReset >= 1
        /\ startPub[r] > lastReset
        /\ Latched(r)
        /\ data[rindex[r]] = startPub[r]

\* C4, as the specification states it: a ReadIndex constructed after publication v and
\* admitted, seen before the next pushUpdate begins, is latched on a cell
\* holding exactly v.
C4_RoundTrip ==
    \A r \in Readers :
        (Returned(r) /\ rcall[r] = "ctor" /\ startPub[r] >= 1
            /\ pubCount = startPub[r] /\ wpc = "idle")
            => (Latched(r) /\ data[rindex[r]] = startPub[r])

\* C4, amended: the same, when no reset() has succeeded since the publication.
C4_RoundTripSinceReset ==
    \A r \in Readers :
        (Returned(r) /\ rcall[r] = "ctor" /\ startPub[r] >= 1
            /\ pubCount = startPub[r] /\ wpc = "idle" /\ startPub[r] > lastReset)
            => (Latched(r) /\ data[rindex[r]] = startPub[r])

\* C4: a ReadIndex was constructed after the second publication, which came
\* after a successful reset(), while the writer's handle stays Valid
C4_Witness ==
    \E r \in Readers :
        /\ Returned(r)
        /\ rcall[r] = "ctor"
        /\ wh[1] = "valid"
        /\ wpc = "idle"
        /\ lastReset >= 1
        /\ startPub[r] > lastReset
        /\ pubCount = startPub[r]
        /\ data[rindex[r]] = startPub[r]

\* C5: admission bound: at most one Valid WriteIndex, at most maxReaders Valid
\* ReadIndex handles, 0 <= nWriters <= 1 and 0 <= nReaders <= maxReaders.
C5_AdmissionBound ==
    /\ Cardinality({w \in Writers : wh[w] = "valid"}) <= 1
    /\ Cardinality({r \in Readers : rh[r] = "valid"}) <= getMaxReaders
    /\ nWriters \in 0..1
    /\ nReaders \in 0..getMaxReaders

\* C5: both gates are full and have turned a handle away while the table is
\* being grown
C5_Witness ==
    /\ \E r1, r2 \in Readers : rh[r1] = "valid" /\ rh[r2] = "invalid"
    /\ \E w1, w2 \in Writers : wh[w1] = "valid" /\ wh[w2] = "invalid"
    /\ nReaders = getMaxReaders
    /\ gpc[0] = "g_lock"

NoValidHandle == (\A r \in Readers : rh[r] # "valid") /\ (\A w \in Writers : wh[w] # "valid")

\* C6: Lockout exclusion: while a valid Lockout is held no handle is Valid, no
\* handle becomes Valid (a construction that completes yields an Invalid
\* handle) and the table length does not change.
C6_LockoutExclusion ==
    /\ [](\A a \in Admins : LockoutHeld(a) => NoValidHandle)
    /\ [][\A a \in Admins : (LockoutHeld(a) /\ LockoutHeld(a)') =>
             /\ size' = size
             /\ \A r \in Readers : rh'[r] = "valid" => rh[r] = "valid"
             /\ \A w \in Writers : wh'[w] = "valid" => wh[w] = "valid"]_vars

\* C6: a valid Lockout is held, a ReadIndex and a WriteIndex constructed under
\* it are Invalid and a call of ensureSpaceForReaders waits for the mutex
C6_Witness ==
    \E a \in Admins :
        /\ LockoutHeld(a)
        /\ \E r \in Readers : rh[r] = "invalid"
        /\ \E w \in Writers : wh[w] = "invalid"
        /\ gpc[0] = "g_lock"
        /\ getMaxReaders < MaxReadersCap

\* C7: a reset() during which the set of live Valid handles did not change
\* returns false if that set is non-empty and true if it is empty.
C7_ResetResult ==
    \A a \in Admins :
        (aobs[a] /\ aret[a] # "none" /\ ~achg[a]) => (aret[a] = "false" <=> aLive[a])

\* a step of admin thread a
AdminMoves(a) == apc'[a] # apc[a] \/ ai'[a] # ai[a]

\* C8: a reset() that returns false modifies none of writerIndex, latest, R[i]
\* and the table length: no step of a call does while the call holds no valid
\* Lockout, which is every step of a call that returns false, the step that
\* decides the result included.  When such a call returns, nWriters and
\* nReaders have their values from before the call (no other thread having
\* changed them meanwhile).
C8_FailedResetFrame ==
    [][\A a \in Admins :
          /\ (AdminMoves(a) /\ (~LockoutHeld(a) \/ aret'[a] = "false"))
                 => UNCHANGED <<writerIndex, latest, readersOf>>
          /\ (apc[a] = "ul_writer" /\ apc'[a] = "idle" /\ aobs[a]
                 /\ aret[a] = "false" /\ aquiet[a])
                 => <<nWriters', nReaders'>> = apre[a]]_vars

\* C8: a reset() called with one Valid WriteIndex outstanding is about to
\* return false, and no other thread touched the gate counters during the call
C8_Witness ==
    \E a \in Admins :
        /\ apc[a] = "ul_writer"
        /\ aobs[a]
        /\ aret[a] = "false"
        /\ aquiet[a]
        /\ apre[a] = <<1, 0>>
        /\ wh[1] = "valid"
        /\ pubCount >= 1

\* C9: whenever hasUpdate returns true for a Valid ReadIndex, the cell named
\* by latest holds a publication strictly newer than the value in the cell the
\* reader is latched on, or the reader is Valid-empty.
C9_UpdateIsNewer ==
    \A r \in Readers :
        (Returned(r) /\ hasUpdate(r)) => (rindex[r] = -1 \/ data[latest] > data[rindex[r]])

\* C10: a pullUpdate that follows a hasUpdate which returned true leaves the
\* handle Valid-latched: index >= 0 and R[index] >= 1.
C10_PullAfterUpdateLatches ==
    \A r \in Readers :
        (Returned(r) /\ rcall[r] = "pullHU") => (rindex[r] >= 0 /\ readersOf[rindex[r]] >= 1)

\* C10: hasUpdate returned true, and the pullUpdate that followed returned
\* latched on a value that was published during the call
C10_Witness ==
    \E r \in Readers :
        /\ Returned(r)
        /\ rcall[r] = "pullHU"
        /\ rindex[r] >= 0
        /\ data[rindex[r]] > startPub[r]

\* a Lockout is under construction, or was constructed valid and its
\* destruction is not complete
LockoutExists(a) ==
    \/ apc[a] \in CtorPcs
    \/ LockoutHeld(a)
    \/ apc[a] \in {"ul_readers", "ul_unlock", "ul_writer"} /\ aret[a] = "true"

\* C11: a WriteIndex is Invalid only because of a second writer: whenever the
\* construction of a WriteIndex yields an Invalid handle, another Valid
\* WriteIndex is live or a Lockout is under construction or valid at that
\* moment.
C11_InvalidOnlyBySecondWriter ==
    [][\A w \in Writers :
          (wh[w] = "none" /\ wh'[w] = "invalid")
              => \/ \E v \in Writers \ {w} : wh[v] = "valid"
                 \/ \E a \in Admins : LockoutExists(a)]_vars

\* the number of live Valid ReadIndex handles
LiveReaders == Cardinality({r \in Readers : rh[r] = "valid"})

\* C12: reader admission fails only when maxReaders readers already exist:
\* whenever the compare_exchange of an admission finds the counter at
\* getMaxReaders() or above (the value on which checkoutReader returns
\* false), maxReaders Valid ReadIndex handles are live or a Lockout is under
\* construction or valid at that moment.
C12_RejectedOnlyWhenFull ==
    [][\A r \in Readers :
          (rh'[r] = "ctor" /\ rpc'[r] = "co_chk" /\ rpc[r] # "co_chk" /\ rcurr'[r] >= getMaxReaders)
              => \/ LiveReaders >= getMaxReaders
                 \/ \E a \in Admins : LockoutExists(a)]_vars

\* the state of the Manager that handles act on
Arbitration == <<nReaders, nWriters, latest, writerIndex, readersOf>>

\* C13: a handle whose admission failed has no effect on the Manager: an
\* Invalid ReadIndex has index -1 and is inside no operation; no ReadIndex
\* becomes Valid while maxReaders Valid readers are live and no WriteIndex
\* while another one is Valid; every step of a construction that does not
\* admit the handle, and the destruction of an Invalid handle, leave nReaders,
\* nWriters, latest, writerIndex and every R[i] unchanged (pushUpdate and
\* pullUpdate on an Invalid handle change no variable at all).
C13_InvalidHandleNoEffect ==
    /\ [](\A r \in Readers : rh[r] = "invalid" => (rindex[r] = -1 /\ rpc[r] = "idle"))
    /\ [][/\ \A r \in Readers :
                /\ (rh[r] # "valid" /\ rh'[r] = "valid") => LiveReaders < getMaxReaders
                /\ (rh'[r] \in {"ctor", "invalid"} /\ <<rh[r], rpc[r]>> # <<rh'[r], rpc'[r]>>)
                       => UNCHANGED Arbitration
                /\ (rh[r] = "invalid" /\ rh'[r] # "invalid")
                       => (rh'[r] = "none" /\ UNCHANGED Arbitration)
          /\ \A w \in Writers :
                /\ (wh[w] # "valid" /\ wh'[w] = "valid") => \A v \in Writers : wh[v] # "valid"
                /\ (wh[w] # "invalid" /\ wh'[w] = "invalid") => UNCHANGED Arbitration
                /\ (wh[w] = "invalid" /\ wh'[w] # "invalid")
                       => (wh'[w] = "none" /\ UNCHANGED Arbitration)]_vars

\* C13: a ReadIndex was refused while maxReaders Valid readers are live and
\* a second WriteIndex while the first is Valid
C13_Witness ==
    /\ \E r \in Readers : rh[r] = "invalid" /\ LiveReaders = getMaxReaders
    /\ wh[1] = "valid" /\ wh[2] = "invalid"

\* the handle is Valid-empty: admitted, index -1, outside every call
ValidEmpty(r) == Returned(r) /\ rindex[r] = -1

\* C14: no value yet: a getLatest() that loads latest = -1 leaves the handle
\* Valid-empty without touching any R[i]; a Valid-empty handle occupies a
\* reader slot, holds no latch, and its hasUpdate is false while latest = -1
\* and true once a publication has followed the last reset; a pullUpdate that
\* began after such a publication returns with the handle latched on a cell
\* holding that publication or a later one.
C14_NoValueYet ==
    /\ [](/\ nReaders >= LiveReaders
          /\ \A r \in Readers :
               /\ ValidEmpty(r) => (nReaders >= 1 /\ ~Latched(r))
               /\ (ValidEmpty(r) /\ latest = -1) => ~hasUpdate(r)
               /\ (ValidEmpty(r) /\ pubCount > lastReset) => hasUpdate(r)
               /\ (Returned(r) /\ rcall[r] = "pull" /\ startPub[r] > lastReset)
                      => (Latched(r) /\ readersOf[rindex[r]] >= 1 /\ data[rindex[r]] >= startPub[r]))
    /\ [][\A r \in Readers :
            (rpc[r] = "gl_load" /\ rpc'[r] # "gl_load" /\ latest = -1)
                => (ValidEmpty(r)' /\ UNCHANGED Arbitration)]_vars

\* C14: a handle that was Valid-empty when its pullUpdate began is latched on
\* a value published after the call began
C14_Witness ==
    \E r \in Readers :
        /\ Returned(r) /\ rcall[r] = "pull" /\ prevSeen[r] = 0
        /\ Latched(r)
        /\ startPub[r] >= 1
        /\ data[rindex[r]] > startPub[r]

C16_GuaranteedTerminates ==
    \A r \in Readers :
        Constructing(r) ~> (Admitted(r) \/ getMaxReaders >= MaxReadersCap)

\* C17: a GuaranteedReadPtr increases the maximum number of readers only if
\* necessary: a step of its construction that adds a reader slot is taken
\* only when maxReaders Valid ReadIndex handles are live.  (Where no other
\* thread destroys a ReadIndex, handles that were live at some moment of the
\* construction are still live when the slot is added.)
C17_GrowsOnlyIfNecessary ==
    [][\A r \in Readers :
          (gpc[r] = "g_add" /\ gpc'[r] = "g_add" /\ size' > size)
              => LiveReaders >= getMaxReaders]_vars

\* C18: grow is monotone and idempotent: when ensureSpaceForReaders(n) is
\* about to return, getMaxReaders() >= n; a cell is added only by the thread
\* that holds sizeMutex inside ensureSpaceForReaders(n), one at a time and only
\* while getMaxReaders() < n (so the result is max(previous, n), and a call
\* with n <= getMaxReaders() changes nothing); no step, reset included, ever
\* decreases getMaxReaders().
C18_GrowMonotoneIdempotent ==
    /\ [](\A t \in Growers : gpc[t] = "g_unlock" => getMaxReaders >= gnew[t])
    /\ [][/\ size' >= size
          /\ size' # size =>
               /\ size' = size + 1
               /\ \E t \in Growers :
                    /\ gpc[t] = "g_add"
                    /\ sizeMutex = <<"grow", t>>
                    /\ getMaxReaders < gnew[t]
                    /\ getMaxReaders' <= gnew[t]]_vars

\* C18: ensureSpaceForReaders(n) is about to return after it grew the table
\* beyond every initial size, and a reset() has succeeded before
C18_Witness ==
    /\ gpc[0] = "g_unlock"
    /\ gnew[0] = MaxReadersCap + 1
    /\ getMaxReaders = MaxReadersCap + 1
    /\ lastReset >= 1

\* a reset() is rewriting the table
Resetting == \E a \in Admins : apc[a] \in {"rs_latest", "rs_loop", "rs_zero"}

\* C19: the write index is stable until the next pushUpdate: writerIndex is
\* changed only by the last step of pushWrite and by a reset() whose Lockout
\* is valid; outside pushWrite and reset, R[writerIndex] = -1; destroying a
\* WriteIndex and constructing a new one changes neither writerIndex nor any
\* R[i] nor the content of the draft cell.
C19_WriteIndexStable ==
    /\ [](wpc = "idle" /\ ~Resetting => writerIndex # -1 /\ readersOf[writerIndex] = -1)
    /\ [][/\ writerIndex' # writerIndex =>
               \/ wpc = "pw_scan" /\ wpc' = "idle"
               \/ \E a \in Admins : apc[a] = "held" /\ apc'[a] = "rs_latest" /\ isValid(a)
          /\ wh' # wh => UNCHANGED <<writerIndex, readersOf, data>>]_vars

\* C19: the WriteIndex was destroyed after the draft was written, the draft
\* cell is not cell 0, and a reset() is returning false
C19_Witness ==
    /\ wh[1] = "none"
    /\ wpc = "idle"
    /\ writerIndex # 0
    /\ data[writerIndex] = pubCount + 1
    /\ \E a \in Admins : aret[a] = "false"
    /\ getMaxReaders > MaxReadersCap

\* C20: snapshot stability: across every step that leaves a reader latched
\* (the reader did not leave its cell through pullUpdate or its destructor),
\* the reader's index and the content of the cell it names are unchanged,
\* whatever the writer, the other readers and a growing thread do.
C20_SnapshotStable ==
    [][\A r \in Readers :
         Latched(r) /\ Latched(r)' =>
             /\ rindex'[r] = rindex[r]
             /\ rindex[r] \in DOMAIN data'
             /\ data'[rindex[r]] = data[rindex[r]]]_vars

\* C20: a reader is still latched on a value at least two publications old
\* while the other reader is latched on a later one and the table has grown
C20_Witness ==
    \E r \in Readers : \E q \in Readers \ {r} :
        /\ Latched(r)
        /\ Latched(q)
        /\ data[rindex[r]] + 2 <= pubCount
        /\ data[rindex[q]] > data[rindex[r]]
        /\ getMaxReaders > MinMaxReaders

\* C21: pushUpdate is wait-free: inside the scan the writer has looked at wi
\* cells of the wsize <= S it will look at, the position of the scan never goes
\* back and its length is fixed (at most one compare-and-swap per cell, one
\* pass), and a call that has begun returns when only the writer thread is
\* scheduled fairly.
C21_PushUpdateWaitFree ==
    /\ [](wpc = "pw_scan" => wi <= wsize /\ wsize <= size)
    /\ [][wpc = "pw_scan" /\ wpc' = "pw_scan" => wi' \in {wi, wi + 1} /\ wsize' = wsize]_vars
    /\ (wpc # "idle") ~> (wpc = "idle")

\* C21: the scan has passed over two cells while a reader is latched, a
\* Lockout has been constructed and the table is being grown
C21_Witness ==
    /\ wpc = "pw_scan"
    /\ wi >= 2
    /\ \E r \in Readers : Latched(r)
    /\ \E a \in Admins : apc[a] = "held"
    /\ gpc[0] = "g_add"

\* the reader is inside ReadIndex::ReadIndex or ReadIndex::pullUpdate
Busy(r) == rh[r] = "ctor" \/ (rh[r] = "valid" /\ rpc[r] \in {"gl_load", "gl_cas", "gl_reload", "finish"})

\* reader q eventually stops checking out, latching and releasing: every
\* change q makes to nReaders turns its handle Valid or not Valid, every
\* change it makes to readersOf gives or ends its latch
Quiet(q) ==
    /\ <>[](rh[q] = "valid") \/ <>[](rh[q] # "valid")
    /\ <>[]Latched(q) \/ <>[](~Latched(q))

\* C22, as the specification states it: the reader fast path is wait-free:
\* every construction and every pullUpdate that has begun completes when the
\* reader is scheduled, whatever the writer and the other readers do.
C22_ReaderWaitFree == \A r \in Readers : Busy(r) ~> ~Busy(r)

\* C22: the reader fast path is lock-free: a construction or a pullUpdate that
\* has begun completes once the writer has stopped publishing and the other
\* readers have stopped checking out, latching and releasing.
C22_ReaderLockFree ==
    \A r \in Readers : (\A q \in Readers \ {r} : Quiet(q)) => (Busy(r) ~> ~Busy(r))

\* C22: two readers are latched on the same cell after two publications: the
\* second to latch found a count other than the one it expected and retried
C22_Witness ==
    \E r \in Readers : \E q \in Readers \ {r} :
        /\ Latched(r)
        /\ Latched(q)
        /\ rindex[r] = rindex[q]
        /\ readersOf[rindex[r]] = 2
        /\ pubCount >= 2

\* the next step of the call reader r is inside
ReaderCallStep(r) ==
    \/ CheckoutReaderTest(r)
    \/ CheckoutReaderCas(r)
    \/ GetLatestLoad(r)
    \/ GetLatestCas(r)
    \/ GetLatestReload(r)
    \/ FinishRead(r, FALSE)
    \/ ReadIndexReturn(r)

\* the next step of the pushWrite the writer is inside
PushWriteStep(w) == PushWriteLatest(w) \/ PushWriteSize(w) \/ PushWriteScan(w)

\* every fast-path call that can be made or continued in this state can take
\* its next step
FastPathsEnabled ==
    /\ \A r \in {1} :
         /\ rh[r] = "none" => ENABLED ReadIndexCtor(r, FALSE)
         /\ rh[r] = "ctor" \/ rpc[r] \in {"gl_load", "gl_cas", "gl_reload", "finish", "d_return"} =>
                ENABLED ReaderCallStep(r)
         /\ rh[r] \in {"valid", "invalid"} /\ rpc[r] = "idle" =>
                (ENABLED PullUpdate(r, FALSE)) /\ (ENABLED ReadIndexDtor(r))
    /\ \A w \in {1} :
         /\ wh[w] = "none" => ENABLED WriteIndexCtor(w)
         /\ wh[w] # "none" /\ wpc = "idle" => ENABLED WriteIndexDtor(w)
         /\ wh[w] = "valid" /\ wpc = "idle" /\ data[writerIndex] = pubCount + 1 =>
                ENABLED PushWriteRelease(w)
         /\ wh[w] = "valid" /\ wpc \in {"pw_latest", "pw_size", "pw_scan"} => ENABLED PushWriteStep(w)

\* C23: fast paths never wait for the resize mutex: in every state in which
\* sizeMutex is held (by ensureSpaceForReaders or by a Lockout), every
\* WriteIndex/ReadIndex construction and destruction, pushUpdate and
\* pullUpdate can take its next step; no step of theirs locks or unlocks the
\* mutex; and when the mutex is never released again, a pushUpdate and a
\* reader's construction or pullUpdate that have begun still complete.
C23_FastPathsIgnoreMutex ==
    /\ [](sizeMutex # FreeMutex => FastPathsEnabled)
    /\ [][sizeMutex' # sizeMutex => apc' # apc \/ gpc' # gpc]_vars
    /\ (<>[](sizeMutex # FreeMutex)) =>
           /\ (wpc # "idle") ~> (wpc = "idle")
           /\ \A r \in {1} : Busy(r) ~> ~Busy(r)

\* C23: the growing thread holds sizeMutex inside ensureSpaceForReaders while
\* the writer is scanning in pushWrite and the reader is inside getLatest
C23_Witness ==
    /\ sizeMutex = <<"grow", 0>>
    /\ gpc[0] = "g_add"
    /\ wpc = "pw_scan"
    /\ \E r \in {1} : rpc[r] = "gl_cas"

\* the table as Manager::Manager leaves it: R[0] = -1, every other R[i] = 0
FreshTable == [i \in DOMAIN readersOf |-> IF i = 0 THEN -1 ELSE 0]

\* the reset() of thread a has run its body and is about to return true
ResetDone(a) == akind[a] = "reset" /\ aret[a] = "true" /\ apc[a] \in {"ul_readers", "ul_unlock", "ul_writer"}

\* C24: a successful reset() returns the Manager to the no-writes-yet state:
\* when its body is done writerIndex = 0, latest = -1, R[0] = -1 and R[i] = 0
\* for every other cell of the table, appended cells included; the size of
\* the table does not change while the reset holds its Lockout; when the call
\* returns the slots it held are released (nWriters = 0, and nReaders counts
\* only the ReadIndex handles admitted since); and with no publication since
\* the reset every Valid ReadIndex is Valid-empty, whatever was published
\* before.
C24_ResetState ==
    /\ [](\A a \in Admins : ResetDone(a) =>
              /\ writerIndex = 0
              /\ latest = -1
              /\ readersOf = FreshTable
              /\ nWriters = 1
              /\ apc[a] = "ul_readers" => nReaders = getMaxReaders)
    /\ [](lastReset >= 1 /\ pubCount = lastReset /\ ~Resetting =>
              /\ latest = -1
              /\ \A r \in Readers : rh[r] = "valid" => rindex[r] = -1
              /\ \A r \in Readers : Returned(r) => ValidEmpty(r))
    /\ [][\A a \in Admins :
            /\ LockoutHeld(a) => size' = size
            /\ (ResetDone(a) /\ apc'[a] = "idle") => (nWriters' = 0 /\ nReaders' = LiveReaders')]_vars

\* C24: after a grow to the largest table and two publications a reset() has
\* run its body and released the reader slots, and a ReadIndex constructed
\* since is Valid-empty
C24_Witness ==
    \E a \in Admins :
        /\ ResetDone(a)
        /\ apc[a] = "ul_writer"
        /\ lastReset = MaxPubAdmin
        /\ getMaxReaders = MaxReadersCap + 1
        /\ \E r \in Readers : ValidEmpty(r)

\* no WriteIndex, ReadIndex or Lockout exists and no call is in progress
Quiescent ==
    /\ \A w \in Writers : wh[w] = "none"
    /\ \A r \in Readers : rh[r] = "none"
    /\ \A a \in Admins : apc[a] = "idle"
    /\ \A t \in Growers : gpc[t] = "idle"

\* C25: handles release their claim on destruction: when every WriteIndex,
\* ReadIndex and Lockout that was created has been destroyed, nWriters = 0,
\* nReaders = 0, exactly one cell has R = -1 (the draft, writerIndex) and
\* every other R[i] is 0, and sizeMutex is free; and a reset() that begins
\* with both counters 0 and during which no other thread changes them
\* returns true.
C25_HandlesRelease ==
    /\ Quiescent =>
         /\ nWriters = 0
         /\ nReaders = 0
         /\ sizeMutex = FreeMutex
         /\ writerIndex \in DOMAIN readersOf
         /\ \A i \in DOMAIN readersOf : readersOf[i] = IF i = writerIndex THEN -1 ELSE 0
    /\ \A a \in Admins :
         (aobs[a] /\ akind[a] = "reset" /\ aret[a] # "none" /\ apre[a] = <<0, 0>> /\ aquiet[a])
             => aret[a] = "true"

\* C25: a reset() that began after the handles that published two values
\* were destroyed, with the other thread's reset() over, is returning true
C25_Witness ==
    \E a \in Admins :
        /\ aobs[a] /\ apre[a] = <<0, 0>> /\ aquiet[a] /\ ~aLive[a] /\ ~achg[a]
        /\ aret[a] = "true"
        /\ apc[a] = "ul_readers"
        /\ lastReset = MaxPubAdmin
        /\ \A b \in Admins \ {a} : apc[b] = "idle"
        /\ \A r \in Readers : rh[r] = "none"

\* C26: Container::map (of an expandable container) during whose Lockout
\* construction no handle becomes or stops being Valid: with no Valid handle
\* live it returns true, and has then applied f once to the original and once
\* to each of the maxReaders + 2 cells (maxReaders + 3 applications); with a
\* Valid handle live it returns false and applies f to nothing.
C26_MapResult ==
    \A a \in Admins :
        (akind[a] = "map" /\ aobs[a] /\ aret[a] # "none" /\ ~achg[a]) =>
            /\ aLive[a] => aret[a] = "false"
            /\ ~aLive[a] => aret[a] = "true"
            /\ aret[a] = "false" => ai[a] = 0
            /\ (aret[a] = "true" /\ apc[a] = "ul_readers") => ai[a] = getMaxReaders + 3

\* C27: a Lockout is all-or-nothing: once its construction has completed, a
\* Lockout that is not valid holds none of the writer slot, the reader slots
\* and sizeMutex, and a valid Lockout holds all three.
C27_LockoutAllOrNothing ==
    \A a \in Admins : apc[a] = "held" =>
        IF isValid(a)
          THEN hasReadLock[a] /\ hasWriteLock[a] /\ sizeMutex = <<"admin", a>>
                   /\ nWriters = 1 /\ nReaders = getMaxReaders
          ELSE ~hasReadLock[a] /\ ~hasWriteLock[a] /\ sizeMutex # <<"admin", a>>

\* the cells other than writerIndex that pushWrite's scan has not passed yet
\* and that its compare_exchange 0 -> -1 would take
ScanCandidates == {i \in wi..(wsize - 1) : i # writerIndex /\ readersOf[i] = 0}

\* C28: the draft scan of pushWrite always succeeds within one pass: with at
\* most maxReaders readers constructing, pulling and destroying handles and
\* with a concurrent ensureSpaceForReaders, the scan never reaches the end of
\* the table (assert(newWriterIndex != -1) does not fail, writerIndex is
\* never -1), because a cell it can take always lies ahead of it.
C28_ScanSucceeds ==
    /\ wpc # "pw_failed"
    /\ writerIndex # -1
    /\ wpc = "pw_scan" => ScanCandidates # {}

\* C28: the scan is running over a table of maxReaders + 2 = 4 cells of which
\* two are held by readers latched on different cells, so only one cell
\* besides writerIndex can be taken
C28_Witness ==
    /\ wpc = "pw_scan"
    /\ size = 4
    /\ wsize = 4
    /\ \E r \in Readers : \E q \in Readers \ {r} :
         /\ Latched(r) /\ Latched(q)
         /\ rindex[r] # rindex[q]
         /\ rindex[r] # writerIndex /\ rindex[q] # writerIndex
    /\ Cardinality({i \in DOMAIN readersOf : i # writerIndex /\ readersOf[i] = 0}) = 1

\* the cells that carry the draft mark
DraftCells == {i \in DOMAIN readersOf : readersOf[i] = -1}

\* C29: single draft cell: in every reachable state at most one index i has
\* R[i] = -1; whenever the writer is not inside pushWrite exactly one index
\* has R[i] = -1 and that index is writerIndex.
C29_SingleDraftCell ==
    /\ Cardinality(DraftCells) <= 1
    /\ wpc = "idle" => DraftCells = {writerIndex}

\* C29 restated: at most one index has R[i] = -1 in every reachable state;
\* whenever the writer is not inside pushWrite and no reset() is between its
\* validity check and its return, exactly one index has R[i] = -1 and that
\* index is writerIndex.
C29_SingleDraftCellOutsideReset ==
    /\ Cardinality(DraftCells) <= 1
    /\ (wpc = "idle" /\ ~Resetting) => DraftCells = {writerIndex}

\* C29: after publications moved the draft away from cell 0 and a reader
\* latched a cell, the writer is at rest with one draft cell; and a reset()
\* has returned true over a table whose draft was not cell 0
C29_Witness ==
    /\ wpc = "idle"
    /\ ~Resetting
    /\ pubCount >= 2
    /\ lastReset >= 1
    /\ pubCount > lastReset
    /\ writerIndex # 0
    /\ \E r \in Readers : Latched(r)
    /\ DraftCells = {writerIndex}

\* latest names no cell or a cell of the table that is not marked as draft
LatestInRange ==
    /\ latest \in {-1} \cup DOMAIN readersOf
    /\ latest >= 0 => readersOf[latest] >= 0

\* C30: publication register invariant: in every reachable state latest is
\* -1 or an index in [0, S), and if latest >= 0 then R[latest] >= 0 (the cell
\* named by latest is never the draft, also in the middle of pushWrite);
\* whenever the writer is outside pushWrite, latest # writerIndex.
C30_PublicationRegister ==
    /\ LatestInRange
    /\ wpc = "idle" => latest # writerIndex

\* C30 restated: latest is -1 or an index in [0, S) and R[latest] >= 0 when
\* latest >= 0, in every reachable state; whenever the writer is outside
\* pushWrite and no reset() is between its validity check and its return,
\* latest # writerIndex.
C30_PublicationRegisterOutsideReset ==
    /\ LatestInRange
    /\ (wpc = "idle" /\ ~Resetting) => latest # writerIndex

\* C30: the writer is at rest after a publication that followed a
\* successful reset(), latest names that publication and a reader holds it
C30_Witness ==
    /\ wpc = "idle"
    /\ ~Resetting
    /\ lastReset >= 1
    /\ pubCount > lastReset
    /\ latest >= 0
    /\ data[latest] = pubCount
    /\ \E r \in Readers : Latched(r) /\ rindex[r] = latest

\* the readers whose increment of readersOf[i] has not been undone
LatchedOn(i) == {r \in Readers : Latched(r) /\ rindex[r] = i}

\* the sum of the positive entries of readersOf
SumOfReaders == Cardinality(UNION {{<<i, k>> : k \in 1..readersOf[i]} : i \in DOMAIN readersOf})

\* C31: reference counts are exact: for all i, R[i] >= -1 and, when
\* R[i] >= 0, R[i] is the number of ReadIndex handles latched on i; a reader
\* is counted in at most one R[i], so the sum of the positive R[i] is the
\* number of Valid-latched handles and is at most maxReaders.
C31_CountsExact ==
    /\ \A i \in DOMAIN readersOf : readersOf[i] >= -1
    /\ \A i \in DOMAIN readersOf : readersOf[i] >= 0 => readersOf[i] = Cardinality(LatchedOn(i))
    /\ \A r \in Readers : Latched(r) => rindex[r] \in DOMAIN readersOf
    /\ SumOfReaders = Cardinality({r \in Readers : Latched(r)})
    /\ SumOfReaders <= getMaxReaders

\* C31: two readers are latched on one cell, which counts 2, while the
\* writer has published again and a third cell is the draft
C31_Witness ==
    /\ \E i \in DOMAIN readersOf :
         /\ readersOf[i] = 2
         /\ Cardinality(LatchedOn(i)) = 2
         /\ latest # i
         /\ latest # -1
    /\ wpc = "idle"

\* the content of cell i has been published: it is the value of a pushUpdate
\* whose latest.store has happened
Published(i) == data[i] >= 1 /\ data[i] <= pubCount

\* C32: a cell with readers holds a published snapshot: if R[i] > 0 then the
\* content of cell i has been published, that is latest was set to i after
\* that content was written; no reader is latched on content whose store to
\* latest has not happened yet.
C32_ReadersSeePublished ==
    \A i \in DOMAIN readersOf : readersOf[i] > 0 => Published(i)

\* the positions of the writer inside Manager::pushWrite, in program order
PushWriteOrder ==
    {<<"idle", "pw_latest">>, <<"pw_latest", "pw_size">>, <<"pw_size", "pw_scan">>,
     <<"pw_scan", "idle">>, <<"pw_scan", "pw_failed">>}

\* C33: publication postcondition: pushUpdate on a Valid WriteIndex with
\* draft w executes R[w] <- 0, then latest <- w, then the scan, in that
\* order; when it returns latest was set to w by it, the new writerIndex w'
\* differs from w, R[w'] = -1, and w' was claimed by a compare_exchange from
\* 0, so that no reader was latched on w' at the moment of the claim.
C33_PublishPostcondition ==
    [][/\ wpc' # wpc => <<wpc, wpc'>> \in PushWriteOrder
       /\ (wpc = "idle" /\ wpc' = "pw_latest") =>
             /\ wh[1] = "valid"
             /\ readersOf[writerIndex] = -1
             /\ readersOf' = [readersOf EXCEPT ![writerIndex] = 0]
             /\ UNCHANGED <<latest, writerIndex>>
       /\ (wpc = "pw_latest" /\ wpc' = "pw_size") =>
             /\ latest' = writerIndex
             /\ UNCHANGED <<readersOf, writerIndex>>
       /\ (wpc = "pw_scan" /\ wpc' = "idle") =>
             /\ latest = writerIndex
             /\ latest' = latest
             /\ writerIndex' # writerIndex
             /\ writerIndex' \in DOMAIN readersOf
             /\ readersOf[writerIndex'] = 0
             /\ LatchedOn(writerIndex') = {}
             /\ readersOf' = [readersOf EXCEPT ![writerIndex'] = -1]
       /\ (wpc = "pw_scan" /\ wpc' = "pw_scan" /\ wi' # wi) => UNCHANGED <<readersOf, latest, writerIndex>>
      ]_vars

\* C33: a pushUpdate has returned after its scan passed a cell held by a
\* reader: latest names the value just published, the draft is another cell
\* and a reader is latched on a third one, below the new draft
C33_Witness ==
    /\ wpc = "idle"
    /\ pubCount >= 2
    /\ latest # -1
    /\ data[latest] = pubCount
    /\ readersOf[writerIndex] = -1
    /\ writerIndex # latest
    /\ \E r \in Readers : Latched(r) /\ rindex[r] # latest /\ rindex[r] < writerIndex

\* thread t is inside Manager::ensureSpaceForReaders
InEnsureSpace(t) == gpc[t] \in {"g_lock", "g_add", "g_unlock"}

\* C34: ensureSpaceForReaders changes only the table length: its steps leave
\* writerIndex, latest, nReaders, nWriters and every existing R[i] unchanged,
\* every appended cell starts with R = 0, and no live handle's index or
\* validity changes; the table length changes by no other step.
C34_EnsureSpaceFrame ==
    [][/\ \A t \in Growers :
            (InEnsureSpace(t) /\ (gpc'[t] # gpc[t] \/ DOMAIN readersOf' # DOMAIN readersOf)) =>
                /\ UNCHANGED <<writerIndex, latest, nReaders, nWriters>>
                /\ UNCHANGED <<wh, rh, rindex>>
                /\ DOMAIN readersOf \subseteq DOMAIN readersOf'
                /\ \A i \in DOMAIN readersOf : readersOf'[i] = readersOf[i]
                /\ \A i \in DOMAIN readersOf' \ DOMAIN readersOf : readersOf'[i] = 0
       /\ DOMAIN readersOf' # DOMAIN readersOf =>
            \E t \in Growers : gpc[t] = "g_add" /\ getMaxReaders < gnew[t]
      ]_vars

\* C34: ensureSpaceForReaders has appended a cell (a reader was refused when
\* maxReaders was 1, the table now has 4 cells) while a reader is latched and
\* the writer is in the scan of pushWrite
C34_Witness ==
    /\ gpc[0] = "g_unlock"
    /\ size = 4
    /\ readersOf[3] = 0
    /\ \E r \in Readers : rh[r] = "invalid"
    /\ \E r \in Readers : Latched(r)
    /\ wh[1] = "valid"
    /\ wpc = "pw_scan"

\* C35: hasUpdate returns true iff the handle is Valid, latest # -1 and
\* latest # index; on an Invalid ReadIndex (admission failed) it returns
\* false without reading Manager state and without reaching an error state.
C35_HasUpdateTotal ==
    \A r \in Readers :
        /\ rpc[r] # "hu_fault"
        /\ sawUpdate[r] => rh[r] = "valid"
        /\ rh[r] = "invalid" => ~hasUpdate(r)

\* the destructor of the Lockout of admin thread a is running
Destroying(a) == apc[a] \in {"ul_readers", "ul_unlock", "ul_writer"}

\* C36: Lockout ordering: a Lockout acquires the resize mutex, then all
\* reader slots, then the writer slot, and its destructor releases what it
\* acquired in the reverse order (writer slot, reader slots, mutex); hence
\* no state has a destroying Lockout that acquired all three still holding
\* the writer slot while the reader slots and the mutex are already free.
C36_LockoutReverseOrder ==
    \A a \in Admins :
        /\ apc[a] \in CtorPcs => ~hasWriteLock[a]
        /\ (apc[a] \in CtorPcs \cup {"held"} /\ hasReadLock[a]) => sizeMutex = <<"admin", a>>
        /\ (Destroying(a) /\ aret[a] = "true" /\ hasWriteLock[a]) =>
               /\ hasReadLock[a]
               /\ sizeMutex = <<"admin", a>>

\* Container::createWithMaxReaders<n>: the table length after
\* Manager() and ensureSpaceForReaders(n)
CreatedTable(n) == (IF n > MinMaxReaders THEN n ELSE MinMaxReaders) + 2

\* Container::createWithMaxReaders<n>: the three cells of the constructor
\* and one more for every i with 1 <= i < n
CreatedCells(n) == 3 + (IF n > 1 THEN n - 1 ELSE 0)

C38_AssertionsHold ==
    /\ \A w \in Writers : wh[w] = "valid" => nWriters = 1
    /\ \A a \in Admins : hasWriteLock[a] => nWriters = 1
    /\ \A r \in Readers : rpc[r] = "d_return" => (nReaders >= 1 /\ nReaders <= getMaxReaders)
    /\ \A r \in Readers : Latched(r) =>
           (readersOf[rindex[r]] >= 1 /\ readersOf[rindex[r]] <= getMaxReaders)
    /\ \A i \in DOMAIN readersOf : readersOf[i] >= -1
    /\ \A r \in Readers : rpc[r] # "gl_failed"

\* C38: a reader has observed R = -1 in getLatest and is about to load latest
\* again, while the other reader has run finishRead in its destructor and is
\* about to call returnReader
C38_Witness ==
    \E r \in Readers : \E q \in Readers \ {r} :
        /\ rpc[r] = "gl_reload"
        /\ latest # -1
        /\ rpc[q] = "d_return"
        /\ nReaders = 2

\* admin thread a, inside map with a valid Lockout (sizeMutex held), waits
\* for dataSizeMutex, which thread t holds inside increaseMaxReadersTo while
\* it waits for sizeMutex in ensureSpaceForReaders
WaitCycle(a, t) ==
    /\ apc[a] = "held" /\ akind[a] = "map" /\ isValid(a)
    /\ sizeMutex = <<"admin", a>>
    /\ gpc[t] = "g_lock"
    /\ dataSizeMutex = <<"grow", t>>

\* C39: no deadlock between the admin paths: with one thread in
\* Container::map (or reset) and another in increaseMaxReadersTo, the resize
\* mutex and the container's data-size mutex are never waited for in a
\* cycle, and both calls eventually return.
C39_NoAdminDeadlock ==
    /\ [](\A a \in Admins : \A t \in Growers : ~WaitCycle(a, t))
    /\ \A a \in Admins : (apc[a] # "idle") ~> (apc[a] = "idle")
    /\ \A t \in Growers : (gpc[t] # "idle") ~> (gpc[t] = "idle")

\* reader r is latched on the cell named by latest, which holds the last
\* published value, and hasUpdate() returns false
Converged(r) ==
    /\ Latched(r)
    /\ rpc[r] = "idle"
    /\ rindex[r] = latest
    /\ data[latest] = pubCount
    /\ ~hasUpdate(r)

\* reader r holds a Valid handle that is not being destroyed
Pulling(r) == rh[r] = "valid" /\ rpc[r] # "d_return"

\* C40, as stated: eventual convergence: if the writer performs no further
\* pushUpdate after some point (and has published), every reader that stays
\* Valid and keeps calling pullUpdate, fairly scheduled, is eventually
\* latched on the cell named by latest, which holds the last published
\* value, and from then on hasUpdate returns false and its index no longer
\* changes.
C40_Convergence ==
    \A r \in Readers :
        <>[](wpc = "idle" /\ latest # -1 /\ Pulling(r)) => <>[]Converged(r)

\* C40 restated: the same, provided the other readers eventually stop
\* constructing and destroying handles (each of them ends up Valid for good
\* or without a Valid handle for good).
C40_ConvergenceQuiet ==
    \A r \in Readers :
        (/\ <>[](wpc = "idle" /\ latest # -1 /\ Pulling(r))
         /\ \A q \in Readers \ {r} : <>[](rh[q] = "valid") \/ <>[](rh[q] # "valid"))
            => <>[]Converged(r)

\* C40: the writer has stopped after its last publication and both readers
\* are latched on the cell named by latest
C40_Witness ==
    /\ wpc = "idle"
    /\ pubCount = MaxPub
    /\ \A r \in Readers : Converged(r)

====
